---- MODULE Spec2Model ----
(***************************************************************************)
(* A model of the Pallad toolchain (src/src): lexer -> parser -> compiler  *)
(* -> stack VM, as driven by main.rs.                                      *)
(*                                                                         *)
(* Representation                                                          *)
(*   characters  one-character strings; a text is a sequence of them       *)
(*   i64         integers of IntBits bits (MinInt..MaxInt); the width is   *)
(*               scaled down, every range test is written against          *)
(*               MinInt/MaxInt so overflow happens where the code's does   *)
(*   usize       0..UsizeMax, with the same ratio to i64 as on a 64-bit    *)
(*               target (UsizeMax = 2*MaxInt + 1, isize::MAX = MaxInt)     *)
(*   f64         exact reduced fractions [num, den], den = 0 holding inf   *)
(*               and NaN; no rounding; +0.0 and -0.0 are one value (the    *)
(*               code's only test on a zero is `== 0.0`, true of both)     *)
(*   String      a sequence of characters for program texts and string     *)
(*               values; a TLA+ string for names and error texts           *)
(*   overflow    `+ - *` on i64 panic when the build has overflow checks   *)
(*               (debug profile) and wrap otherwise (release profile):     *)
(*               overflowChecks is fixed per build, chosen in Init         *)
(***************************************************************************)
EXTENDS Integers, Sequences, FiniteSets, TLC

VARIABLES
    source,          \* main: the text read from the file, a sequence of characters
    tokens,          \* main: tokenize's result
    stmts,           \* main: Parser::parse's result
    program,         \* the IR sequence handed to VM::run
    pc,              \* position in main: "tokenize" "parse" "compile" "run" "exit" "abort"
    ip,              \* VM::run: number of instructions the for loop has taken
    stack,           \* VM.stack
    globals,         \* VM.globals: a function from the bound names to values
    output,          \* stdout: the lines println! has written
    outcome,         \* how the pipeline ended: [tag |-> "None" | "Ok" | "Err" | "Panic"]
    overflowChecks,  \* the build: TRUE = arithmetic overflow panics, FALSE = it wraps
    prev,            \* history: stack, globals, output before the last instruction
    calls            \* number of calls of run on the VM so far, the current one included

vars == <<source, tokens, stmts, program, pc, ip, stack, globals, output,
          outcome, overflowChecks, prev, calls>>

-----------------------------------------------------------------------------
(* Bounds of the model *)

IntBits == 4
MaxProg == 3
MaxTail == 4
MaxLines == 3
MaxCalls == 2
MaxDepth == 2
MaxArgs == 2
MaxExpr == 5

RECURSIVE Pow2(_)
Pow2(n) == IF n = 0 THEN 1 ELSE 2 * Pow2(n - 1)

MinInt == 0 - Pow2(IntBits - 1)
MaxInt == Pow2(IntBits - 1) - 1
UsizeMax == Pow2(IntBits) - 1
IsizeMax == MaxInt
Int64 == MinInt..MaxInt

-----------------------------------------------------------------------------
(* Integer helpers: Rust's i64 operators *)

Abs(n) == IF n < 0 THEN 0 - n ELSE n
Sign(n) == IF n < 0 THEN 0 - 1 ELSE 1

\* Rust `/` on integers: the quotient truncated toward zero (b # 0)
TruncDiv(a, b) == Sign(a) * Sign(b) * (Abs(a) \div Abs(b))

\* Rust `%` on integers: the remainder, with the sign of the dividend (b # 0)
TruncRem(a, b) == a - b * TruncDiv(a, b)

\* two's-complement wrap-around of a mathematical result into i64
Wrap(n) == ((n - MinInt) % Pow2(IntBits)) + MinInt

InRange(n) == n >= MinInt /\ n <= MaxInt

RECURSIVE Gcd(_, _)
Gcd(a, b) == IF b = 0 THEN a ELSE Gcd(b, a % b)

-----------------------------------------------------------------------------
(* f64 as fractions [num, den] in lowest terms, den >= 0.  den = 0 holds the *)
(* non-finite values the way IEEE 754 division yields them: 1/0 = +inf,      *)
(* -1/0 = -inf, 0/0 = NaN.                                                   *)

Q(n, d) ==
    LET s == IF d < 0 THEN 0 - 1 ELSE 1
        g == IF n = 0 /\ d = 0 THEN 1 ELSE Gcd(Abs(n), Abs(d))
    IN  [num |-> s * (n \div g), den |-> s * (d \div g)]

NaN == [num |-> 0, den |-> 0]
Inf == [num |-> 1, den |-> 0]
QIsFinite(a) == a.den # 0                               \* f64::is_finite
QIsZero(a) == a.num = 0 /\ a.den # 0                    \* `a == 0.0`
QInt(n) == [num |-> n, den |-> 1]                       \* `n as f64`
QNeg(a) == [num |-> 0 - a.num, den |-> a.den]
QAdd(a, b) ==
    IF a.den = 0 /\ b.den = 0
    THEN (IF a.num = b.num THEN a ELSE NaN)             \* inf + inf, inf - inf
    ELSE Q(a.num * b.den + b.num * a.den, a.den * b.den)
QSub(a, b) == QAdd(a, QNeg(b))
QMul(a, b) == Q(a.num * b.num, a.den * b.den)
QDiv(a, b) == Q(a.num * b.den, a.den * b.num)
QFloor(a) == a.num \div a.den                           \* f64::floor, a finite
QTrunc(a) == TruncDiv(a.num, a.den)                     \* f64::trunc, a finite
\* Rust `%` on f64 (fmod): a - trunc(a / b) * b, with the sign of a
QRem(a, b) ==
    IF ~QIsFinite(a) \/ b = NaN \/ QIsZero(b) THEN NaN
    ELSE IF ~QIsFinite(b) THEN a
    ELSE QSub(a, QMul(QInt(QTrunc(QDiv(a, b))), b))

-----------------------------------------------------------------------------
(* Text rendering: i64::to_string, f64::to_string (Display) *)

Digit(n) == <<"0", "1", "2", "3", "4", "5", "6", "7", "8", "9">>[n + 1]

RECURSIVE NatToString(_)
NatToString(n) ==
    IF n < 10 THEN <<Digit(n)>> ELSE NatToString(n \div 10) \o <<Digit(n % 10)>>

IntToString(n) == IF n < 0 THEN <<"-">> \o NatToString(0 - n) ELSE NatToString(n)

\* the digits of r/d after the decimal point, by long division, at most k of them
\* (17 significant digits always identify an f64)
RECURSIVE FracToString(_, _, _)
FracToString(r, d, k) ==
    IF r = 0 \/ k = 0 THEN <<>>
    ELSE <<Digit((r * 10) \div d)>> \o FracToString((r * 10) % d, d, k - 1)

\* Display for f64: no exponent, no trailing ".0" (2.0 prints as 2)
FloatToString(q) ==
    IF q = NaN THEN <<"N", "a", "N">>
    ELSE IF q.den = 0 THEN (IF q.num < 0 THEN <<"-">> ELSE <<>>) \o <<"i", "n", "f">>
    ELSE LET a == Abs(q.num)
             whole == (IF q.num < 0 THEN <<"-">> ELSE <<>>) \o NatToString(a \div q.den)
         IN  IF a % q.den = 0 THEN whole
             ELSE whole \o <<".">> \o FracToString(a % q.den, q.den, 17)

-----------------------------------------------------------------------------
(* value.rs: Value; error.rs: PalladError; function results *)

VNone == [k |-> "None"]
VInt(n) == [k |-> "Int", n |-> n]
VFloat(q) == [k |-> "Float", f |-> q]
VStr(s) == [k |-> "Str", s |-> s]

StackUnderflow(operation) == [e |-> "StackUnderflow", operation |-> operation]
UndefinedVariable(n) == [e |-> "UndefinedVariable", name |-> n]
UnknownBuiltin(n) == [e |-> "UnknownBuiltin", name |-> n]
DivisionByZero(operation) == [e |-> "DivisionByZero", operation |-> operation]
TypeMismatch(l, r, operation) ==
    [e |-> "TypeMismatch", left |-> l, right |-> r, operation |-> operation]
IntDivOverflow == [e |-> "IntDivOverflow"]
RepeatOverflow == [e |-> "RepeatOverflow"]
NegativeRepeat == [e |-> "NegativeRepeat"]

\* Result<Value, PalladError>, or the thread panicking
Ok(v) == [tag |-> "Ok", val |-> v]
Err(e) == [tag |-> "Err", err |-> e]
Panic == [tag |-> "Panic"]
\* Ok(()) of a function returning Result<(), PalladError>
OkUnit == [tag |-> "Ok"]

-----------------------------------------------------------------------------
(* vm.rs *)

Ops == {"Add", "Sub", "Mul", "Div", "IntDiv", "Mod"}

\* mutant: integer-divide reports itself as divide
op_name_shared(op) ==
    CASE op = "Add" -> "add"
      [] op = "Sub" -> "subtract"
      [] op = "Mul" -> "multiply"
      [] op \in {"Div", "IntDiv"} -> "divide"
      [] op = "Mod" -> "mod"

Op_name(op) ==
    CASE op = "Add" -> "add"
      [] op = "Sub" -> "subtract"
      [] op = "Mul" -> "multiply"
      [] op = "Div" -> "divide"
      [] op = "IntDiv" -> "integer-divide"
      [] op = "Mod" -> "mod"

\* `a + b`, `a - b`, `a * b` on i64 with mathematical result r
IntArith(r, oc) ==
    IF InRange(r) THEN Ok(VInt(r))
    ELSE IF oc THEN Panic
    ELSE Ok(VInt(Wrap(r)))

\* `i64::MAX as f64`: 2^63 - 1 is not an f64 and rounds up to 2^63
MaxIntAsFloat == MaxInt + 1

\* (x).floor(), the is_finite and range tests, the saturating cast `as i64`
FloorToInt(q) ==
    IF QIsFinite(q) /\ QFloor(q) >= MinInt /\ QFloor(q) <= MaxIntAsFloat
    THEN Ok(VInt(IF QFloor(q) > MaxInt THEN MaxInt ELSE QFloor(q)))
    ELSE Err(IntDivOverflow)

RECURSIVE Repeat(_, _)
Repeat(s, n) == IF n = 0 THEN <<>> ELSE s \o Repeat(s, n - 1)

\* Str * Int: the NegativeRepeat test, checked_mul on usize, then str::repeat,
\* which panics ("capacity overflow") above isize::MAX bytes
StrRepeat(a, b) ==
    IF b < 0 THEN Err(NegativeRepeat)
    ELSE IF Len(a) * b > UsizeMax THEN Err(RepeatOverflow)
    ELSE IF Len(a) * b > IsizeMax THEN Panic
    ELSE Ok(VStr(Repeat(a, b)))

IsNum(v) == v.k \in {"Int", "Float"}
\* the operand as f64: `*a as f64` for an Int, the value itself for a Float
AsFloat(v) == IF v.k = "Int" THEN QInt(v.n) ELSE v.f
Text(v) == IF v.k = "Int" THEN IntToString(v.n)
           ELSE IF v.k = "Float" THEN FloatToString(v.f) ELSE v.s

\* mutant: the zero test forgets the Float arm
is_zero_int_only(b) == b.k = "Int" /\ b.n = 0

\* the zero test of Div, IntDiv and Mod on the right operand
is_zero(b) ==
    CASE b.k = "Int" -> b.n = 0
      [] b.k = "Float" -> QIsZero(b.f)
      [] OTHER -> FALSE

\* the operand kinds of the match arms
BothInt(a, b) == a.k = "Int" /\ b.k = "Int"
\* Int with Float, Float with Int, Float with Float: computed in f64
SomeFloat(a, b) == IsNum(a) /\ IsNum(b) /\ ~BothInt(a, b)
\* Int, Float or Str with a Str on at least one side (the Add arms giving a Str)
SomeStr(a, b) ==
    /\ a.k \in {"Int", "Float", "Str"} /\ b.k \in {"Int", "Float", "Str"}
    /\ (a.k = "Str" \/ b.k = "Str")

\* i64::checked_div: None when b = 0 or on MIN / -1, else the truncated quotient
\* mutant: the quotient wraps instead of being refused (wrapping_div)
wrapping_div(a, b) ==
    IF b = 0 THEN Err(IntDivOverflow) ELSE Ok(VInt(Wrap(TruncDiv(a, b))))

checked_div(a, b) ==
    IF b = 0 \/ (a = MinInt /\ b = 0 - 1) THEN Err(IntDivOverflow)
    ELSE Ok(VInt(TruncDiv(a, b)))

\* the arms of the match of pop_two_operands on (a, b, op), grouped by op;
\* every pairing without an arm falls to `_ => TypeMismatch`
\* mutant: a number on the left is appended instead of prepended
add_arms_swapped(a, b, oc) ==
    CASE BothInt(a, b) -> IntArith(a.n + b.n, oc)
      [] SomeFloat(a, b) -> Ok(VFloat(QAdd(AsFloat(a), AsFloat(b))))
      [] SomeStr(a, b) /\ a.k = "Str" -> Ok(VStr(Text(a) \o Text(b)))
      [] SomeStr(a, b) /\ a.k # "Str" -> Ok(VStr(Text(b) \o Text(a)))
      [] OTHER -> Err(TypeMismatch(a, b, Op_name("Add")))

add_arms(a, b, oc) ==
    CASE BothInt(a, b) -> IntArith(a.n + b.n, oc)
      [] SomeFloat(a, b) -> Ok(VFloat(QAdd(AsFloat(a), AsFloat(b))))
      [] SomeStr(a, b) -> Ok(VStr(Text(a) \o Text(b)))
      [] OTHER -> Err(TypeMismatch(a, b, Op_name("Add")))

sub_arms(a, b, oc) ==
    CASE BothInt(a, b) -> IntArith(a.n - b.n, oc)
      [] SomeFloat(a, b) -> Ok(VFloat(QSub(AsFloat(a), AsFloat(b))))
      [] OTHER -> Err(TypeMismatch(a, b, Op_name("Sub")))

\* mutant: string repetition made commutative
mul_arms_commutative(a, b, oc) ==
    CASE BothInt(a, b) -> IntArith(a.n * b.n, oc)
      [] SomeFloat(a, b) -> Ok(VFloat(QMul(AsFloat(a), AsFloat(b))))
      [] a.k = "Str" /\ b.k = "Int" -> StrRepeat(a.s, b.n)
      [] a.k = "Int" /\ b.k = "Str" -> StrRepeat(b.s, a.n)
      [] OTHER -> Err(TypeMismatch(a, b, Op_name("Mul")))

mul_arms(a, b, oc) ==
    CASE BothInt(a, b) -> IntArith(a.n * b.n, oc)
      [] SomeFloat(a, b) -> Ok(VFloat(QMul(AsFloat(a), AsFloat(b))))
      [] a.k = "Str" /\ b.k = "Int" -> StrRepeat(a.s, b.n)
      [] OTHER -> Err(TypeMismatch(a, b, Op_name("Mul")))

\* mutant: `/` on two Ints is integer division
div_arms_integer(a, b) ==
    IF BothInt(a, b) THEN checked_div(a.n, b.n)
    ELSE IF IsNum(a) /\ IsNum(b) THEN Ok(VFloat(QDiv(AsFloat(a), AsFloat(b))))
    ELSE Err(TypeMismatch(a, b, Op_name("Div")))

div_arms(a, b) ==
    IF IsNum(a) /\ IsNum(b) THEN Ok(VFloat(QDiv(AsFloat(a), AsFloat(b))))
    ELSE Err(TypeMismatch(a, b, Op_name("Div")))

intdiv_arms(a, b) ==
    CASE BothInt(a, b) -> checked_div(a.n, b.n)
      [] SomeFloat(a, b) -> FloorToInt(QDiv(AsFloat(a), AsFloat(b)))
      [] OTHER -> Err(TypeMismatch(a, b, Op_name("IntDiv")))

mod_arms(a, b) ==
    CASE BothInt(a, b) ->
            \* `%` on i64 panics on a zero divisor and on MIN % -1, in every build
            IF b.n = 0 \/ (a.n = MinInt /\ b.n = 0 - 1) THEN Panic
            ELSE Ok(VInt(TruncRem(a.n, b.n)))
      [] SomeFloat(a, b) -> Ok(VFloat(QRem(AsFloat(a), AsFloat(b))))
      [] OTHER -> Err(TypeMismatch(a, b, Op_name("Mod")))

Dispatch(a, b, op, oc) ==
    CASE op = "Add" -> add_arms(a, b, oc)
      [] op = "Sub" -> sub_arms(a, b, oc)
      [] op = "Mul" -> mul_arms(a, b, oc)
      [] op = "Div" -> div_arms(a, b)
      [] op = "IntDiv" -> intdiv_arms(a, b)
      [] op = "Mod" -> mod_arms(a, b)

\* lines 201-316: the zero test, then the match
Compute(a, b, op, oc) ==
    IF op \in {"Div", "IntDiv", "Mod"} /\ is_zero(b)
    THEN Err(DivisionByZero(Op_name(op)))
    ELSE Dispatch(a, b, op, oc)

Top(stk) == stk[Len(stk)]
Below(stk) == SubSeq(stk, 1, Len(stk) - 1)

\* mutant: the first pop is taken as the left operand
pop_two_operands_swapped(stk, op, oc) ==
    IF Len(stk) < 2
    THEN [res |-> Err(StackUnderflow(Op_name(op))), stack |-> <<>>]
    ELSE [res |-> Compute(Top(stk), Top(Below(stk)), op, oc),
          stack |-> Below(Below(stk))]

\* the result (Ok value, Err, Panic) and the stack both pops leave behind
pop_two_operands(stk, op, oc) ==
    IF Len(stk) < 2
    THEN [res |-> Err(StackUnderflow(Op_name(op))), stack |-> <<>>]
    ELSE [res |-> Compute(Top(Below(stk)), Top(stk), op, oc),
          stack |-> Below(Below(stk))]

execute_arithmetic(stk, op, oc) ==
    LET r == pop_two_operands(stk, op, oc)
    IN  IF r.res.tag = "Ok"
        THEN [res |-> r.res, stack |-> Append(r.stack, r.res.val)]
        ELSE r

\* ir.rs / vm.rs: the instructions VM::run matches on
LoadNone == [op |-> "LoadNone"]
LoadInt(n) == [op |-> "LoadInt", n |-> n]
LoadFloat(q) == [op |-> "LoadFloat", f |-> q]
LoadStr(s) == [op |-> "LoadStr", s |-> s]
LoadVar(n) == [op |-> "LoadVar", name |-> n]
StoreVar(n) == [op |-> "StoreVar", name |-> n]
Arith(op) == [op |-> op]
CallBuiltin(n, argc) == [op |-> "CallBuiltin", name |-> n, argc |-> argc]
Pop == [op |-> "Pop"]

\* HashMap::insert
\* mutant: a name already bound keeps its first value
insert_if_absent(g, n, v) ==
    [m \in DOMAIN g \cup {n} |-> IF m \in DOMAIN g THEN g[m] ELSE v]

Insert(g, n, v) == [m \in DOMAIN g \cup {n} |-> IF m = n THEN v ELSE g[m]]

\* println!("{}", ..) of one print argument
Render(v) ==
    CASE v.k = "None" -> <<"<", "n", "o", "n", "e", ">">>
      [] v.k = "Int" -> IntToString(v.n)
      [] v.k = "Float" -> FloatToString(v.f)
      [] v.k = "Str" -> v.s

RECURSIVE render_all_pop_order(_)
\* mutant: the arguments are printed in the order they were popped
render_all_pop_order(args) ==
    IF args = <<>> THEN <<>>
    ELSE render_all_pop_order(Tail(args)) \o <<Render(Head(args))>>

RECURSIVE RenderAll(_)
RenderAll(args) ==
    IF args = <<>> THEN <<>> ELSE <<Render(Head(args))>> \o RenderAll(Tail(args))

\* one state of the VM and of stdout, with the result of the step that led to it
Vm(res, stk, glb, out) == [res |-> res, stack |-> stk, globals |-> glb, output |-> out]

\* mutant: the values popped before the underflow are printed
call_builtin_partial(callee, argc, stk, glb, out) ==
    IF callee = "print"
    THEN IF Len(stk) < argc
         THEN Vm(Err(StackUnderflow("print")), <<>>, glb, out \o RenderAll(stk))
         ELSE Vm(OkUnit, SubSeq(stk, 1, Len(stk) - argc), glb,
                 out \o RenderAll(SubSeq(stk, Len(stk) - argc + 1, Len(stk))))
    ELSE Vm(Err(UnknownBuiltin(callee)), stk, glb, out)

\* the CallBuiltin arm: argc pops (the first failing one returns), then the
\* popped values printed in reverse pop order
call_builtin(callee, argc, stk, glb, out) ==
    IF callee = "print"
    THEN IF Len(stk) < argc
         THEN Vm(Err(StackUnderflow("print")), <<>>, glb, out)
         ELSE Vm(OkUnit, SubSeq(stk, 1, Len(stk) - argc), glb,
                 out \o RenderAll(SubSeq(stk, Len(stk) - argc + 1, Len(stk))))
    ELSE Vm(Err(UnknownBuiltin(callee)), stk, glb, out)

\* one iteration of the for loop of VM::run: the match on instr
Execute(instr, stk, glb, out, oc) ==
    CASE instr.op = "LoadNone" -> Vm(OkUnit, Append(stk, VNone), glb, out)
      [] instr.op = "LoadInt" -> Vm(OkUnit, Append(stk, VInt(instr.n)), glb, out)
      [] instr.op = "LoadFloat" -> Vm(OkUnit, Append(stk, VFloat(instr.f)), glb, out)
      [] instr.op = "LoadStr" -> Vm(OkUnit, Append(stk, VStr(instr.s)), glb, out)
      [] instr.op = "LoadVar" ->
            IF instr.name \in DOMAIN glb
            THEN Vm(OkUnit, Append(stk, glb[instr.name]), glb, out)
            ELSE Vm(Err(UndefinedVariable(instr.name)), stk, glb, out)
      [] instr.op = "StoreVar" ->
            IF stk = <<>>
            THEN Vm(Err(StackUnderflow("store variable")), stk, glb, out)
            ELSE Vm(OkUnit, Below(stk), Insert(glb, instr.name, Top(stk)), out)
      [] instr.op \in Ops ->
            LET r == execute_arithmetic(stk, instr.op, oc)
            IN  Vm(IF r.res.tag = "Ok" THEN OkUnit ELSE r.res, r.stack, glb, out)
      [] instr.op = "CallBuiltin" -> call_builtin(instr.name, instr.argc, stk, glb, out)
      [] instr.op = "Pop" ->
            IF stk = <<>>
            THEN Vm(Err(StackUnderflow("Pop")), stk, glb, out)
            ELSE Vm(OkUnit, Below(stk), glb, out)

-----------------------------------------------------------------------------
(* lexer.rs: Token; ast.rs: Expr, Stmt *)

\* a token without a payload: Token::Var, Token::Plus, Token::Eol, ...
Token(kind) == [t |-> kind]
TIdent(n) == [t |-> "Ident", name |-> n]
TInt(n) == [t |-> "Int", n |-> n]
TFloat(q) == [t |-> "Float", f |-> q]
TStr(s) == [t |-> "Str", s |-> s]

ENone == [e |-> "None"]
EInt(n) == [e |-> "Int", n |-> n]
EFloat(q) == [e |-> "Float", f |-> q]
EStr(s) == [e |-> "Str", s |-> s]
EVar(n) == [e |-> "Var", name |-> n]
EBinary(l, op, r) == [e |-> "Binary", left |-> l, op |-> op, right |-> r]
ECall(n, args) == [e |-> "Call", name |-> n, args |-> args]

SLet(n, expr) == [s |-> "Let", name |-> n, expr |-> expr]
SExpr(expr) == [s |-> "Expr", expr |-> expr]

-----------------------------------------------------------------------------
(* lexer.rs.  The input is a sequence of characters; identifiers and the     *)
(* texts carried by errors are strings, built with \o.  The characters are   *)
(* ASCII, where char::is_numeric is '0'..='9' and char::is_alphanumeric adds *)
(* the letters.                                                              *)

\* the Err(e) of a stage
Rejected(e) == [ok |-> FALSE, err |-> e]

InvalidNumber(value, line) == [e |-> "InvalidNumber", value |-> value, line |-> line]
UnknownCharacter(got, line) == [e |-> "UnknownCharacter", got |-> got, line |-> line]
InvalidEscape(char, line) == [e |-> "InvalidEscape", char |-> char, line |-> line]
UnterminatedString(line) == [e |-> "UnterminatedString", line |-> line]

Digits == {"0", "1", "2", "3", "4", "5", "6", "7", "8", "9"}
Letters ==
    {"a", "b", "c", "d", "e", "f", "g", "h", "i", "j", "k", "l", "m",
     "n", "o", "p", "q", "r", "s", "t", "u", "v", "w", "x", "y", "z",
     "A", "B", "C", "D", "E", "F", "G", "H", "I", "J", "K", "L", "M",
     "N", "O", "P", "Q", "R", "S", "T", "U", "V", "W", "X", "Y", "Z"}
WhiteSpace == {" ", "\t", "\n", "\r", "\f"}

is_numeric(c) == c \in Digits
is_alphanumeric(c) == c \in Digits \cup Letters

RECURSIVE Cat(_)
\* the String of a sequence of characters
Cat(cs) == IF cs = <<>> THEN "" ELSE Head(cs) \o Cat(Tail(cs))

RECURSIVE split_terminator(_, _)
\* the input cut after every "\n", cur being the piece under way; a final
\* empty piece is dropped
split_terminator(input, cur) ==
    IF input = <<>> THEN (IF cur = <<>> THEN <<>> ELSE <<cur>>)
    ELSE IF Head(input) = "\n" THEN <<cur>> \o split_terminator(Tail(input), <<>>)
    ELSE split_terminator(Tail(input), Append(cur, Head(input)))

\* str::lines: the pieces, each without a final "\r"
lines(input) ==
    LET pieces == split_terminator(input, <<>>)
        strip(l) == IF l # <<>> /\ l[Len(l)] = "\r" THEN SubSeq(l, 1, Len(l) - 1) ELSE l
    IN  [i \in 1..Len(pieces) |-> strip(pieces[i])]

RECURSIVE before_hash(_)
\* line.split('#').next(): what stands before the first '#'
before_hash(l) ==
    IF l = <<>> \/ Head(l) = "#" THEN <<>> ELSE <<Head(l)>> \o before_hash(Tail(l))

RECURSIVE trim_start(_)
trim_start(l) == IF l # <<>> /\ Head(l) \in WhiteSpace THEN trim_start(Tail(l)) ELSE l
RECURSIVE trim_end(_)
trim_end(l) ==
    IF l # <<>> /\ l[Len(l)] \in WhiteSpace THEN trim_end(SubSeq(l, 1, Len(l) - 1)) ELSE l
trim(l) == trim_end(trim_start(l))

RECURSIVE scan_number(_, _, _, _)
\* the inner while loop of the '0'..='9' arm, i being the peeked position
scan_number(line, i, num, dot_count) ==
    IF i > Len(line) THEN [ok |-> TRUE, num |-> num, is_float |-> dot_count > 0, i |-> i]
    ELSE IF is_numeric(line[i])
    THEN scan_number(line, i + 1, Append(num, line[i]), dot_count)
    ELSE IF line[i] = "."
    THEN IF dot_count + 1 > 1 THEN [ok |-> FALSE, value |-> Cat(num) \o "."]
         ELSE scan_number(line, i + 1, Append(num, line[i]), dot_count + 1)
    ELSE [ok |-> TRUE, num |-> num, is_float |-> dot_count > 0, i |-> i]

RECURSIVE DigitsValue(_, _)
\* the number a run of digits writes after acc, capped above MaxInt
DigitsValue(ds, acc) ==
    IF ds = <<>> THEN acc
    ELSE LET d == CHOOSE n \in 0..9 : Digit(n) = Head(ds)
             v == 10 * acc + d
         IN  DigitsValue(Tail(ds), IF v > MaxInt THEN MaxInt + 1 ELSE v)

\* num.parse::<i64>() on digits: Err when the number does not fit
parse_i64(num) ==
    LET v == DigitsValue(num, 0)
    IN  IF v > MaxInt THEN [ok |-> FALSE] ELSE [ok |-> TRUE, n |-> v]

RECURSIVE Pow10(_)
Pow10(k) == IF k = 0 THEN 1 ELSE 10 * Pow10(k - 1)

RECURSIVE NatValue(_, _)
NatValue(ds, acc) ==
    IF ds = <<>> THEN acc
    ELSE NatValue(Tail(ds), 10 * acc + (CHOOSE n \in 0..9 : Digit(n) = Head(ds)))

\* num.parse::<f64>() on digits with one '.': the decimal fraction written
parse_f64(num) ==
    LET dot == CHOOSE k \in 1..Len(num) : num[k] = "."
        whole == SubSeq(num, 1, dot - 1)
        frac == SubSeq(num, dot + 1, Len(num))
    IN  [ok |-> TRUE, f |-> Q(NatValue(whole \o frac, 0), Pow10(Len(frac)))]

RECURSIVE scan_ident(_, _, _)
\* the while loop of the letter arm
scan_ident(line, i, ident) ==
    IF i <= Len(line) /\ (is_alphanumeric(line[i]) \/ line[i] = "_")
    THEN scan_ident(line, i + 1, ident \o line[i])
    ELSE [ident |-> ident, i |-> i]

\* the keyword match on an identifier
Keyword(ident) ==
    CASE ident = "var" -> Token("Var")
      [] ident = "none" -> Token("None")
      [] ident = "print" -> Token("Print")
      [] OTHER -> TIdent(ident)

RECURSIVE parse_string_closed_at_end(_, _, _, _, _)
\* mutant: the end of the line closes a string literal
parse_string_closed_at_end(line, i, quote, line_no, s) ==
    IF i > Len(line) THEN [ok |-> TRUE, s |-> s, i |-> i]
    ELSE LET c == line[i]
             x == IF i + 1 > Len(line) THEN "" ELSE line[i + 1]
         IN  IF c = "\\"
             THEN CASE x = "" -> [ok |-> TRUE, s |-> s, i |-> i + 1]
                    [] x = "n" ->
                          parse_string_closed_at_end(line, i + 2, quote, line_no, Append(s, "\n"))
                    [] x = "t" ->
                          parse_string_closed_at_end(line, i + 2, quote, line_no, Append(s, "\t"))
                    [] x = "r" ->
                          parse_string_closed_at_end(line, i + 2, quote, line_no, Append(s, "\r"))
                    [] x \in {quote, "\\"} ->
                          parse_string_closed_at_end(line, i + 2, quote, line_no, Append(s, x))
                    [] OTHER -> Rejected(InvalidEscape(x, line_no + 1))
             ELSE IF c = quote THEN [ok |-> TRUE, s |-> s, i |-> i + 1]
             ELSE parse_string_closed_at_end(line, i + 1, quote, line_no, Append(s, c))

RECURSIVE parse_string(_, _, _, _, _)
\* parse_string, i being the position chars.next() reads and s the text so far
parse_string(line, i, quote, line_no, s) ==
    IF i > Len(line) THEN Rejected(UnterminatedString(line_no + 1))
    ELSE LET c == line[i]
         IN  IF c = "\\"
             THEN IF i + 1 > Len(line) THEN Rejected(UnterminatedString(line_no + 1))
                  ELSE LET x == line[i + 1]
                       IN  CASE x = "n" -> parse_string(line, i + 2, quote, line_no, Append(s, "\n"))
                             [] x = "t" -> parse_string(line, i + 2, quote, line_no, Append(s, "\t"))
                             [] x = "r" -> parse_string(line, i + 2, quote, line_no, Append(s, "\r"))
                             [] x = quote -> parse_string(line, i + 2, quote, line_no, Append(s, x))
                             [] x = "\\" -> parse_string(line, i + 2, quote, line_no, Append(s, x))
                             [] OTHER -> Rejected(InvalidEscape(x, line_no + 1))
             ELSE IF c = quote THEN [ok |-> TRUE, s |-> s, i |-> i + 1]
             ELSE parse_string(line, i + 1, quote, line_no, Append(s, c))

\* the tokens of the one-character arms
Punctuation(ch) ==
    CASE ch = "+" -> Token("Plus")
      [] ch = "-" -> Token("Minus")
      [] ch = "*" -> Token("Star")
      [] ch = "%" -> Token("Mod")
      [] ch = "=" -> Token("Eq")
      [] ch = "(" -> Token("LParen")
      [] ch = ")" -> Token("RParen")
      [] ch = "," -> Token("Comma")

RECURSIVE tokenize_line(_, _, _, _)
\* the `while let Some(&ch) = chars.peek()` loop over one line
tokenize_line(line, i, line_no, toks) ==
    IF i > Len(line) THEN [ok |-> TRUE, tokens |-> toks]
    ELSE LET ch == line[i]
         IN  CASE ch \in {" ", "\t"} -> tokenize_line(line, i + 1, line_no, toks)
               [] ch \in Digits ->
                     LET r == scan_number(line, i, <<>>, 0)
                         v == IF r.is_float THEN parse_f64(r.num) ELSE parse_i64(r.num)
                     IN  IF ~r.ok THEN Rejected(InvalidNumber(r.value, line_no + 1))
                         ELSE IF ~v.ok THEN Rejected(InvalidNumber(Cat(r.num), line_no + 1))
                         ELSE tokenize_line(line, r.i, line_no,
                                  Append(toks, IF r.is_float THEN TFloat(v.f) ELSE TInt(v.n)))
               [] ch \in Letters ->
                     LET r == scan_ident(line, i, "")
                     IN  tokenize_line(line, r.i, line_no, Append(toks, Keyword(r.ident)))
               [] ch \in {"\"", "'"} ->
                     LET r == parse_string(line, i + 1, ch, line_no, <<>>)
                     IN  IF r.ok THEN tokenize_line(line, r.i, line_no, Append(toks, TStr(r.s)))
                         ELSE r
               [] ch = "/" ->
                     IF i + 1 <= Len(line) /\ line[i + 1] = "/"
                     THEN tokenize_line(line, i + 2, line_no, Append(toks, Token("IntDiv")))
                     ELSE tokenize_line(line, i + 1, line_no, Append(toks, Token("Slash")))
               [] ch \in {"+", "-", "*", "%", "=", "(", ")", ","} ->
                     tokenize_line(line, i + 1, line_no, Append(toks, Punctuation(ch)))
               [] OTHER -> Rejected(UnknownCharacter(ch, line_no + 1))

RECURSIVE tokenize_lines_eol_always(_, _, _)
\* mutant: a line that is empty after the trim gets its Eol too
tokenize_lines_eol_always(ls, line_no, toks) ==
    IF line_no >= Len(ls) THEN [ok |-> TRUE, tokens |-> toks]
    ELSE LET line == trim(before_hash(ls[line_no + 1]))
             r == tokenize_line(line, 1, line_no, toks)
         IN  IF r.ok
             THEN tokenize_lines_eol_always(ls, line_no + 1, Append(r.tokens, Token("Eol")))
             ELSE r

RECURSIVE tokenize_lines_no_last_eol(_, _, _)
\* mutant: the last source line gets no Eol
tokenize_lines_no_last_eol(ls, line_no, toks) ==
    IF line_no >= Len(ls) THEN [ok |-> TRUE, tokens |-> toks]
    ELSE LET line == trim(before_hash(ls[line_no + 1]))
             r == tokenize_line(line, 1, line_no, toks)
         IN  IF line = <<>> THEN tokenize_lines_no_last_eol(ls, line_no + 1, toks)
             ELSE IF ~r.ok THEN r
             ELSE IF line_no + 1 = Len(ls) THEN r
             ELSE tokenize_lines_no_last_eol(ls, line_no + 1, Append(r.tokens, Token("Eol")))

RECURSIVE tokenize_lines(_, _, _)
\* the for loop of tokenize over input.lines().enumerate(), from line_no on
tokenize_lines(ls, line_no, toks) ==
    IF line_no >= Len(ls) THEN [ok |-> TRUE, tokens |-> toks]
    ELSE LET line == trim(before_hash(ls[line_no + 1]))
         IN  IF line = <<>> THEN tokenize_lines(ls, line_no + 1, toks)
             ELSE LET r == tokenize_line(line, 1, line_no, toks)
                  IN  IF r.ok
                      THEN tokenize_lines(ls, line_no + 1, Append(r.tokens, Token("Eol")))
                      ELSE r

tokenize(input) == tokenize_lines(lines(input), 0, <<>>)

-----------------------------------------------------------------------------
(* ir.rs *)

\* the variants enum Instr declares
Instr ==
    {"LoadInt", "LoadFloat", "LoadVar", "StoreVar", "Add", "Sub", "Mul", "Div",
     "IntDiv", "Mod", "CallBuiltin", "Pop"}

-----------------------------------------------------------------------------
(* compiler.rs *)

\* the match in compile_expr has no arm for Expr::None: nothing is pushed for
\* it, and the lowering of a tree that holds it does not exist
NoArm == [op |-> "NoArm"]
NonExhaustiveMatch == [e |-> "NonExhaustiveMatch"]

RECURSIVE compile_expr(_)
RECURSIVE compile_args(_)

\* `for arg in args { compile_expr(arg, program) }`
compile_args(args) ==
    IF args = <<>> THEN <<>>
    ELSE compile_expr(Head(args)) \o compile_args(Tail(args))

\* mutant: the right operand of a binary node is lowered before the left one
compile_expr_right_first(expr) ==
    CASE expr.e = "Int" -> <<LoadInt(expr.n)>>
      [] expr.e = "Float" -> <<LoadFloat(expr.f)>>
      [] expr.e = "Str" -> <<LoadStr(expr.s)>>
      [] expr.e = "Var" -> <<LoadVar(expr.name)>>
      [] expr.e = "Binary" ->
            compile_expr(expr.right) \o compile_expr(expr.left) \o <<Arith(expr.op)>>
      [] expr.e = "Call" ->
            compile_args(expr.args) \o <<CallBuiltin(expr.name, Len(expr.args))>>
      [] expr.e = "None" -> <<NoArm>>

\* the instructions compile_expr pushes onto the program buffer
compile_expr(expr) ==
    CASE expr.e = "Int" -> <<LoadInt(expr.n)>>
      [] expr.e = "Float" -> <<LoadFloat(expr.f)>>
      [] expr.e = "Str" -> <<LoadStr(expr.s)>>
      [] expr.e = "Var" -> <<LoadVar(expr.name)>>
      [] expr.e = "Binary" ->
            compile_expr(expr.left) \o compile_expr(expr.right) \o <<Arith(expr.op)>>
      [] expr.e = "Call" ->
            compile_args(expr.args) \o <<CallBuiltin(expr.name, Len(expr.args))>>
      [] expr.e = "None" -> <<NoArm>>

\* mutant: a call statement is always lowered with argc = 1
compile_stmt_argc_one(stmt) ==
    CASE stmt.s = "Let" -> compile_expr(stmt.expr) \o <<StoreVar(stmt.name)>>
      [] stmt.s = "Expr" /\ stmt.expr.e = "Call" ->
            compile_args(stmt.expr.args) \o <<CallBuiltin(stmt.expr.name, 1)>>
      [] stmt.s = "Expr" /\ stmt.expr.e # "Call" -> compile_expr(stmt.expr) \o <<Pop>>

\* mutant: a call statement is lowered like any other expression statement
compile_stmt_call_popped(stmt) ==
    CASE stmt.s = "Let" -> compile_expr(stmt.expr) \o <<StoreVar(stmt.name)>>
      [] stmt.s = "Expr" -> compile_expr(stmt.expr) \o <<Pop>>

\* the match on one statement in compile
compile_stmt(stmt) ==
    CASE stmt.s = "Let" -> compile_expr(stmt.expr) \o <<StoreVar(stmt.name)>>
      [] stmt.s = "Expr" /\ stmt.expr.e = "Call" ->
            compile_args(stmt.expr.args)
                \o <<CallBuiltin(stmt.expr.name, Len(stmt.expr.args))>>
      [] stmt.s = "Expr" /\ stmt.expr.e # "Call" -> compile_expr(stmt.expr) \o <<Pop>>

RECURSIVE compile_stmts(_)
compile_stmts(ss) ==
    IF ss = <<>> THEN <<>> ELSE compile_stmt(Head(ss)) \o compile_stmts(Tail(ss))

\* compile: Ok(program) for every statement sequence compile_expr has arms for
compile(ss) ==
    LET lowered(prog) ==
            IF \E i \in 1..Len(prog) : prog[i] = NoArm
            THEN [ok |-> FALSE, err |-> NonExhaustiveMatch]
            ELSE [ok |-> TRUE, program |-> prog]
    IN  lowered(compile_stmts(ss))

-----------------------------------------------------------------------------
(* parser.rs.  The parser is its token vector, passed as toks, and the pair  *)
(* p = [pos, line]; pos counts from 0 as in the code.                        *)

\* the absence of a token: current() returning None
Eof == [t |-> "None of Option"]

UnexpectedToken(got, expected, line) ==
    [e |-> "UnexpectedToken", got |-> got, expected |-> expected, line |-> line]
EndOfInput(expected, line) ==
    [e |-> "EndOfInput", expected |-> expected, line |-> line]

\* Parser::new
NewParser == [pos |-> 0, line |-> 1]

current(toks, p) == IF p.pos < Len(toks) THEN toks[p.pos + 1] ELSE Eof

advance(toks, p) ==
    [pos |-> p.pos + 1,
     line |-> IF current(toks, p) = Token("Eol") THEN p.line + 1 ELSE p.line]

\* a parsing function's Ok(expr) with the parser it leaves
Parsed(expr, p) == [ok |-> TRUE, expr |-> expr, p |-> p]

\* the Some(other) and None arms of a match on current(): got is the token
\* (the code formats it with {:?})
Expected(toks, p, what) ==
    IF current(toks, p) = Eof
    THEN Rejected(EndOfInput(what, p.line))
    ELSE Rejected(UnexpectedToken(current(toks, p), what, p.line))

RECURSIVE parse_factor(_, _)
RECURSIVE parse_mul_div_loop(_, _, _)
RECURSIVE parse_add_sub_loop(_, _, _)
RECURSIVE parse_expr(_, _)

parse_factor(toks, p) ==
    LET tok == current(toks, p)
        \* Ok(Expr::Binary { left: Int(0), op: Sub, right: operand })
        negated(operand) ==
            IF operand.ok
            THEN Parsed(EBinary(EInt(0), "Sub", operand.expr), operand.p)
            ELSE operand
        \* the match on current() after the parenthesised expression
        closed(inner) ==
            IF ~inner.ok THEN inner
            ELSE IF current(toks, inner.p) = Token("RParen")
            THEN Parsed(inner.expr, advance(toks, inner.p))
            ELSE Expected(toks, inner.p, "')'")
    IN  CASE tok.t = "Minus" -> negated(parse_factor(toks, advance(toks, p)))
          [] tok.t = "Int" -> Parsed(EInt(tok.n), advance(toks, p))
          [] tok.t = "Float" -> Parsed(EFloat(tok.f), advance(toks, p))
          [] tok.t = "Str" -> Parsed(EStr(tok.s), advance(toks, p))
          [] tok.t = "Ident" -> Parsed(EVar(tok.name), advance(toks, p))
          [] tok.t = "LParen" -> closed(parse_expr(toks, advance(toks, p)))
          [] OTHER -> Expected(toks, p, "integer, float, variable, or '('")

\* the binary operator a multiplicative token stands for
MulDivOp(tok) ==
    CASE tok.t = "Star" -> "Mul"
      [] tok.t = "Slash" -> "Div"
      [] tok.t = "IntDiv" -> "IntDiv"
      [] tok.t = "Mod" -> "Mod"

\* the while loop of parse_mul_div, entered with left
parse_mul_div_loop(toks, left, p) ==
    LET tok == current(toks, p)
        again(right) ==
            IF right.ok
            THEN parse_mul_div_loop(toks, EBinary(left, MulDivOp(tok), right.expr), right.p)
            ELSE right
    IN  IF tok.t \in {"Star", "Slash", "IntDiv", "Mod"}
        THEN again(parse_factor(toks, advance(toks, p)))
        ELSE Parsed(left, p)

parse_mul_div(toks, p) ==
    LET loop(left) == IF left.ok THEN parse_mul_div_loop(toks, left.expr, left.p) ELSE left
    IN  loop(parse_factor(toks, p))

\* the while loop of parse_add_sub, entered with left
parse_add_sub_loop(toks, left, p) ==
    LET tok == current(toks, p)
        again(right) ==
            IF right.ok
            THEN parse_add_sub_loop(toks,
                     EBinary(left, IF tok.t = "Plus" THEN "Add" ELSE "Sub", right.expr),
                     right.p)
            ELSE right
    IN  IF tok.t \in {"Plus", "Minus"}
        THEN again(parse_mul_div(toks, advance(toks, p)))
        ELSE Parsed(left, p)

\* mutant: the first operand of an additive chain is one factor
parse_add_sub_factor(toks, p) ==
    LET loop(left) == IF left.ok THEN parse_add_sub_loop(toks, left.expr, left.p) ELSE left
    IN  loop(parse_factor(toks, p))

parse_add_sub(toks, p) ==
    LET loop(left) == IF left.ok THEN parse_add_sub_loop(toks, left.expr, left.p) ELSE left
    IN  loop(parse_mul_div(toks, p))

parse_expr(toks, p) == parse_add_sub(toks, p)

\* the `loop` collecting the arguments of print, entered after the first test
\* for ')' has failed; Parsed carries the argument list
RECURSIVE parse_print_args(_, _, _)
parse_print_args(toks, args, p) ==
    LET \* args.push(..), then the match on current()
        pushed(arg) ==
            IF ~arg.ok THEN arg
            ELSE IF current(toks, arg.p) = Token("Comma")
            THEN parse_print_args(toks, Append(args, arg.expr), advance(toks, arg.p))
            ELSE IF current(toks, arg.p) = Token("RParen")
            THEN Parsed(Append(args, arg.expr), advance(toks, arg.p))
            ELSE Expected(toks, arg.p, "',' or ')'")
    IN  IF current(toks, p) = Token("RParen") THEN Parsed(args, advance(toks, p))
        ELSE pushed(parse_expr(toks, p))

\* the Token::Var arm of parse: Parsed carries the statement
parse_var(toks, p) ==
    LET p1 == advance(toks, p)
        p2 == advance(toks, p1)
        bound(r) == IF r.ok THEN Parsed(SLet(current(toks, p1).name, r.expr), r.p) ELSE r
    IN  IF current(toks, p1).t # "Ident" THEN Expected(toks, p1, "identifier")
        ELSE IF current(toks, p2) # Token("Eq") THEN Expected(toks, p2, "'='")
        ELSE bound(parse_expr(toks, advance(toks, p2)))

\* the Token::Print arm of parse: Parsed carries the statement
parse_print(toks, p) ==
    LET p1 == advance(toks, p)
        p2 == advance(toks, p1)
        call(r) == IF r.ok THEN Parsed(SExpr(ECall("print", r.expr)), r.p) ELSE r
    IN  IF current(toks, p1) # Token("LParen") THEN Expected(toks, p1, "'('")
        ELSE IF current(toks, p2) = Token("RParen")
        THEN call(Parsed(<<>>, advance(toks, p2)))
        ELSE call(parse_print_args(toks, <<>>, p2))

RECURSIVE parse_loop_lenient(_, _, _)
\* mutant: a token that starts no statement is skipped like an Eol
parse_loop_lenient(toks, ss, p) ==
    LET tok == current(toks, p)
        push(r) == IF r.ok THEN parse_loop_lenient(toks, Append(ss, r.expr), r.p) ELSE r
    IN  CASE tok = Eof -> [ok |-> TRUE, stmts |-> ss, p |-> p]
          [] tok = Token("Var") -> push(parse_var(toks, p))
          [] tok = Token("Print") -> push(parse_print(toks, p))
          [] OTHER -> parse_loop_lenient(toks, ss, advance(toks, p))

RECURSIVE parse_loop_stops(_, _, _)
\* mutant: a token that starts no statement ends the loop
parse_loop_stops(toks, ss, p) ==
    LET tok == current(toks, p)
        push(r) == IF r.ok THEN parse_loop_stops(toks, Append(ss, r.expr), r.p) ELSE r
    IN  CASE tok = Token("Var") -> push(parse_var(toks, p))
          [] tok = Token("Print") -> push(parse_print(toks, p))
          [] tok = Token("Eol") -> parse_loop_stops(toks, ss, advance(toks, p))
          [] OTHER -> [ok |-> TRUE, stmts |-> ss, p |-> p]

\* the while loop of parse, entered with the statements parsed so far
RECURSIVE parse_loop(_, _, _)
parse_loop(toks, ss, p) ==
    LET tok == current(toks, p)
        \* stmts.push(..) and the next iteration
        push(r) == IF r.ok THEN parse_loop(toks, Append(ss, r.expr), r.p) ELSE r
    IN  CASE tok = Eof -> [ok |-> TRUE, stmts |-> ss, p |-> p]
          [] tok = Token("Var") -> push(parse_var(toks, p))
          [] tok = Token("Print") -> push(parse_print(toks, p))
          [] tok = Token("Eol") -> parse_loop(toks, ss, advance(toks, p))
          [] OTHER -> Expected(toks, p, "'var', 'print', or end of line")

\* Parser::new(tokens).parse()
parse(toks) == parse_loop(toks, <<>>, NewParser)

-----------------------------------------------------------------------------
(* The state machine *)

NoOutcome == [tag |-> "None"]
Failed(stage, e) == [tag |-> "Err", stage |-> stage, err |-> e]
Snapshot(stk, glb, out) == [stack |-> stk, globals |-> glb, output |-> out]
EmptyMap == [n \in {} |-> VNone]

\* VM::new(): an empty stack and an empty global table; nothing printed yet
FreshVM ==
    /\ ip = 0
    /\ stack = <<>>
    /\ globals = EmptyMap
    /\ output = <<>>
    /\ outcome = NoOutcome
    /\ prev = Snapshot(<<>>, EmptyMap, <<>>)

\* mutant: the Err of an instruction is dropped and the loop goes on
AfterInstrContinue(res) ==
    CASE res.tag = "Ok" -> "run"
      [] res.tag = "Err" -> "run"
      [] res.tag = "Panic" -> "abort"

\* where control goes after an instruction: on, or out of run through `?` and
\* out of main through its last statement; a panic ends the process
AfterInstr(res) ==
    CASE res.tag = "Ok" -> "run"
      [] res.tag = "Err" -> "exit"
      [] res.tag = "Panic" -> "abort"

\* one iteration of `for instr in program`
VMStep ==
    /\ pc = "run"
    /\ ip < Len(program)
    /\ LET r == Execute(program[ip + 1], stack, globals, output, overflowChecks)
       IN  /\ stack' = r.stack
           /\ globals' = r.globals
           /\ output' = r.output
           /\ pc' = AfterInstr(r.res)
           /\ outcome' = CASE r.res.tag = "Ok" -> outcome
                           [] r.res.tag = "Err" -> Failed("Runtime", r.res.err)
                           [] r.res.tag = "Panic" -> Panic
    /\ ip' = ip + 1
    /\ prev' = Snapshot(stack, globals, output)
    /\ UNCHANGED <<source, tokens, stmts, program, overflowChecks, calls>>

\* the for loop is exhausted: run returns Ok(()) and main ends
RunReturn ==
    /\ pc = "run"
    /\ ip = Len(program)
    /\ pc' = "exit"
    /\ outcome' = OkUnit
    /\ UNCHANGED <<source, tokens, stmts, program, ip, stack, globals, output,
                   overflowChecks, prev, calls>>

\* mutant: main falls through to the next stage whatever the stage returned
AfterStageNoReturn(stage, ok) ==
    CASE stage = "tokenize" -> "parse"
      [] stage = "parse" -> "compile"
      [] stage = "compile" -> "run"

\* the match on a stage's Result in main: Ok goes on to the next stage, the Err
\* arm prints the error and returns
AfterStage(stage, ok) ==
    IF ~ok THEN "exit"
    ELSE CASE stage = "tokenize" -> "parse"
           [] stage = "parse" -> "compile"
           [] stage = "compile" -> "run"

\* let tokens = match tokenize(&code) { ... }
Tokenize ==
    /\ pc = "tokenize"
    /\ LET r == tokenize(source)
       IN  /\ tokens' = IF r.ok THEN r.tokens ELSE <<>>
           /\ outcome' = IF r.ok THEN outcome ELSE Failed("Tokenizer", r.err)
           /\ pc' = AfterStage("tokenize", r.ok)
    /\ UNCHANGED <<source, stmts, program, ip, stack, globals, output,
                   overflowChecks, prev, calls>>

\* let stmts = match parser.parse() { ... }
Parse ==
    /\ pc = "parse"
    /\ LET r == parse(tokens)
       IN  /\ stmts' = IF r.ok THEN r.stmts ELSE <<>>
           /\ outcome' = IF r.ok THEN outcome ELSE Failed("Parse", r.err)
           /\ pc' = AfterStage("parse", r.ok)
    /\ UNCHANGED <<source, tokens, program, ip, stack, globals, output,
                   overflowChecks, prev, calls>>

\* let program = match compile(stmts) { ... }; then VM::new()
Compile ==
    /\ pc = "compile"
    /\ LET r == compile(stmts)
       IN  /\ program' = IF r.ok THEN r.program ELSE <<>>
           /\ outcome' = IF r.ok THEN outcome ELSE Failed("Compile", r.err)
           /\ pc' = AfterStage("compile", r.ok)
    /\ UNCHANGED <<source, tokens, stmts, ip, stack, globals, output,
                   overflowChecks, prev, calls>>

-----------------------------------------------------------------------------
(* Spec: VM::run on a fresh VM, over bounded IR programs *)

RECURSIVE SeqsUpTo(_, _)
\* all sequences over S of length at most n
SeqsUpTo(S, n) ==
    IF n = 0 THEN {<<>>}
    ELSE LET shorter == SeqsUpTo(S, n - 1)
         IN  shorter \cup {Append(q, x) : q \in {t \in shorter : Len(t) = n - 1}, x \in S}

FloatVals == {Q(0, 1), Q(1, 2), Q(2, 1), Q(5, 2), Q(0 - 7, 2), QInt(MaxInt + 1), Inf, NaN}
StrVals == {<<>>, <<"a">>, <<"a", "b">>, <<"a", "b", "c">>}
Values ==
    {VNone} \cup {VInt(n) : n \in Int64} \cup {VFloat(q) : q \in FloatVals}
            \cup {VStr(t) : t \in StrVals}

\* the load instruction that pushes v
Load(v) ==
    CASE v.k = "None" -> LoadNone
      [] v.k = "Int" -> LoadInt(v.n)
      [] v.k = "Float" -> LoadFloat(v.f)
      [] v.k = "Str" -> LoadStr(v.s)

\* a binary operation on every pair of values: the IR of `a op b`
BinaryPrograms == {<<Load(a), Load(b), Arith(op)>> : a \in Values, b \in Values, op \in Ops}

\* every instruction kind, over two names
Alphabet ==
    {LoadInt(2), LoadStr(<<"a">>), LoadVar("x"), LoadVar("y"),
     StoreVar("x"), StoreVar("y"), Arith("Sub"),
     CallBuiltin("print", 0), CallBuiltin("print", 1), CallBuiltin("print", 2),
     CallBuiltin("len", 1), Pop}

\* what has run before: nothing, or a value on the stack, a binding and a line
\* of output
Setups ==
    {<<>>,
     <<LoadStr(<<"c">>), LoadInt(1), StoreVar("x"), LoadNone, CallBuiltin("print", 1)>>}

SetupPrograms == {s \o t : s \in Setups, t \in SeqsUpTo(Alphabet, MaxProg)}

\* a binary opcode on a stack of no value or of one value
UnderflowPrograms ==
    {<<Arith(op)>> : op \in Ops} \cup {<<LoadInt(1), Arith(op)>> : op \in Ops}

Programs == BinaryPrograms \cup SetupPrograms \cup UnderflowPrograms

Init ==
    /\ source = <<>>
    /\ tokens = <<>>
    /\ stmts = <<>>
    /\ program \in Programs
    /\ overflowChecks \in BOOLEAN
    /\ pc = "run"
    /\ FreshVM
    /\ calls = 1

Next == VMStep \/ RunReturn

Spec == Init /\ [][Next]_vars

-----------------------------------------------------------------------------
(* SpecPipe: parse, compile and run, over bounded token streams *)

\* the tokens a stream is drawn from after its opening
TokenAlphabet ==
    {TInt(2), TIdent("x"), Token("Minus"), Token("Star"), Token("LParen"),
     Token("RParen"), Token("Comma"), Token("Eol"), Token("Print"), Token("Eq")}

\* `var x = 7` on a line of its own
FirstStatement == <<Token("Var"), TIdent("x"), Token("Eq"), TInt(7), Token("Eol")>>

\* how a stream opens: with nothing, with the head of a statement, or with a
\* whole statement and the head of a second one
Openings ==
    {<<>>, <<Token("Var"), TIdent("x"), Token("Eq")>>, <<Token("Print"), Token("LParen")>>,
     FirstStatement \o <<Token("Var"), TIdent("x"), Token("Eq")>>,
     FirstStatement \o <<Token("Print"), Token("LParen")>>}

TokenStreams == {o \o t : o \in Openings, t \in SeqsUpTo(TokenAlphabet, MaxTail)}

InitPipe ==
    /\ source = <<>>
    /\ tokens \in TokenStreams
    /\ stmts = <<>>
    /\ program = <<>>
    /\ overflowChecks \in BOOLEAN
    /\ pc = "parse"
    /\ FreshVM
    /\ calls = 1

NextPipe == Parse \/ Compile \/ VMStep \/ RunReturn

SpecPipe == InitPipe /\ [][NextPipe]_vars

-----------------------------------------------------------------------------
(* SpecMain: main from the source text on, over bounded sources *)

\* the lines a source is made of
LineSet ==
    {\* var x = 7
     <<"v", "a", "r", " ", "x", " ", "=", " ", "7">>,
     \* print(x)
     <<"p", "r", "i", "n", "t", "(", "x", ")">>,
     \* print(x - 2, "a")
     <<"p", "r", "i", "n", "t", "(", "x", " ", "-", " ", "2", ",", " ", "\"",
       "a", "\"", ")">>,
     \* var y = x // 0
     <<"v", "a", "r", " ", "y", " ", "=", " ", "x", " ", "/", "/", " ", "0">>,
     \* print(1.5) # c<CR>
     <<"p", "r", "i", "n", "t", "(", "1", ".", "5", ")", " ", "#", " ", "c",
       "\r">>,
     \* x = 1
     <<"x", " ", "=", " ", "1">>,
     \* var s = "a#b"
     <<"v", "a", "r", " ", "s", " ", "=", " ", "\"", "a", "#", "b", "\"">>,
     \* print("a#b")
     <<"p", "r", "i", "n", "t", "(", "\"", "a", "#", "b", "\"", ")">>,
     \* print(2 $ 1)
     <<"p", "r", "i", "n", "t", "(", "2", " ", "$", " ", "1", ")">>,
     \* 1.2.3
     <<"1", ".", "2", ".", "3">>,
     \* a line of blanks
     <<" ", " ">>,
     \* var z = 'a\n' * 2
     <<"v", "a", "r", " ", "z", " ", "=", " ", "'", "a", "\\", "n", "'", " ",
       "*", " ", "2">>,
     \* print("\q")
     <<"p", "r", "i", "n", "t", "(", "\"", "\\", "q", "\"", ")">>,
     \* var n = 9999999999
     <<"v", "a", "r", " ", "n", " ", "=", " ", "9", "9", "9", "9", "9", "9",
       "9", "9", "9", "9">>,
     \* print(none)
     <<"p", "r", "i", "n", "t", "(", "n", "o", "n", "e", ")">>,
     \* print(x % 2 / 1 + x)
     <<"p", "r", "i", "n", "t", "(", "x", " ", "%", " ", "2", " ", "/", " ",
       "1", " ", "+", " ", "x", ")">>}

RECURSIVE Unlines(_)
\* the text whose lines are ls, each ended by a newline
Unlines(ls) == IF ls = <<>> THEN <<>> ELSE Head(ls) \o <<"\n">> \o Unlines(Tail(ls))

Sources == {Unlines(ls) : ls \in SeqsUpTo(LineSet, MaxLines)}

InitMain ==
    /\ source \in Sources
    /\ tokens = <<>>
    /\ stmts = <<>>
    /\ program = <<>>
    /\ overflowChecks \in BOOLEAN
    /\ pc = "tokenize"
    /\ FreshVM
    /\ calls = 1

NextMain == Tokenize \/ Parse \/ Compile \/ VMStep \/ RunReturn

SpecMain == InitMain /\ [][NextMain]_vars

-----------------------------------------------------------------------------
(* SpecRerun: run called again on the same VM, over short programs *)

RerunAlphabet ==
    {LoadInt(2), LoadVar("x"), StoreVar("x"), Arith("Sub"), CallBuiltin("print", 1), Pop}

RerunPrograms == SeqsUpTo(RerunAlphabet, 2)

\* a caller that keeps the VM calls run once more, with another program, after
\* run has returned Ok or Err: run starts on the fields as the last call left
\* them (it assigns neither self.stack nor self.globals before its loop)
RunAgain ==
    /\ pc = "exit"
    /\ outcome.tag \in {"Ok", "Err"}
    /\ calls < MaxCalls
    /\ program' \in RerunPrograms
    /\ calls' = calls + 1
    /\ pc' = "run"
    /\ ip' = 0
    /\ outcome' = NoOutcome
    /\ prev' = Snapshot(stack, globals, output)
    /\ UNCHANGED <<source, tokens, stmts, stack, globals, output, overflowChecks>>

InitRerun ==
    /\ source = <<>>
    /\ tokens = <<>>
    /\ stmts = <<>>
    /\ program \in RerunPrograms
    /\ overflowChecks \in BOOLEAN
    /\ pc = "run"
    /\ FreshVM
    /\ calls = 1

NextRerun == VMStep \/ RunReturn \/ RunAgain

SpecRerun == InitRerun /\ [][NextRerun]_vars

-----------------------------------------------------------------------------
(* SpecLower: compile and run, over bounded expression trees *)

\* one leaf of each kind ast.rs declares
Leaves == {ENone, EInt(2), EFloat(Q(1, 2)), EStr(<<"a">>), EVar("x")}

\* the trees of depth at most d: binary nodes and calls over smaller trees
RECURSIVE Trees(_)
Trees(d) ==
    IF d = 0 THEN Leaves
    ELSE LET grown(sub) ==
                 sub \cup {EBinary(l, "Add", r) : l \in sub, r \in sub}
                     \cup {ECall("print", args) : args \in SeqsUpTo(sub, MaxArgs)}
         IN  grown(Trees(d - 1))

\* a statement of either kind around each tree
Statements(trees) == {SLet("x", expr) : expr \in trees} \cup {SExpr(expr) : expr \in trees}

\* one statement around a tree, or a statement around a leaf and a second
\* statement around a smaller tree
Lowerings ==
    {<<stmt>> : stmt \in Statements(Trees(MaxDepth))}
        \cup {<<first, second>> :
                 first \in Statements(Leaves), second \in Statements(Trees(MaxDepth - 1))}

InitLower ==
    /\ source = <<>>
    /\ tokens = <<>>
    /\ stmts \in Lowerings
    /\ program = <<>>
    /\ overflowChecks \in BOOLEAN
    /\ pc = "compile"
    /\ FreshVM
    /\ calls = 1

NextLower == Compile \/ VMStep \/ RunReturn

SpecLower == InitLower /\ [][NextLower]_vars

-----------------------------------------------------------------------------
(* SpecLex: tokenize and parse, over bounded sources of literals *)

LexLines ==
    {\* an empty line
     <<>>,
     \* # c
     <<"#", " ", "c">>,
     \* var x = -7
     <<"v", "a", "r", " ", "x", " ", "=", " ", "-", "7">>,
     \* 7
     <<"7">>,
     \* -7
     <<"-", "7">>,
     \* -8
     <<"-", "8">>,
     \* 07
     <<"0", "7">>,
     \* print("\n\t\r\"\\")
     <<"p", "r", "i", "n", "t", "(", "\"", "\\", "n", "\\", "t", "\\", "r",
       "\\", "\"", "\\", "\\", "\"", ")">>,
     \* print('\'')
     <<"p", "r", "i", "n", "t", "(", "'", "\\", "'", "'", ")">>,
     \* "\'"
     <<"\"", "\\", "'", "\"">>,
     \* '\"'
     <<"'", "\\", "\"", "'">>,
     \* "a
     <<"\"", "a">>,
     \* "a\
     <<"\"", "a", "\\">>,
     \* "a'
     <<"\"", "a", "'">>,
     \* 'a"
     <<"'", "a", "\"">>,
     \* "\#"
     <<"\"", "\\", "#", "\"">>,
     \* a quote, a backslash and a blank
     <<"\"", "\\", " ">>,
     \* x = 1
     <<"x", " ", "=", " ", "1">>,
     \* var x =
     <<"v", "a", "r", " ", "x", " ", "=">>,
     \* print(2
     <<"p", "r", "i", "n", "t", "(", "2">>}

LexSources == {Unlines(ls) : ls \in SeqsUpTo(LexLines, MaxLines)}

InitLex ==
    /\ source \in LexSources
    /\ tokens = <<>>
    /\ stmts = <<>>
    /\ program = <<>>
    /\ overflowChecks \in BOOLEAN
    /\ pc = "tokenize"
    /\ FreshVM
    /\ calls = 1

NextLex == Tokenize \/ Parse

SpecLex == InitLex /\ [][NextLex]_vars

-----------------------------------------------------------------------------
(* SpecParse: parse, over bounded expressions bound by `var x =` *)

\* the tokens an expression is drawn from after its opening
ExprAlphabet ==
    {TInt(2), TIdent("x"), Token("Plus"), Token("Minus"), Token("Star"),
     Token("LParen"), Token("RParen")}

\* how an expression opens: with nothing, with a parenthesised operand, or
\* with an operand, an operator and an opening parenthesis
ExprOpenings ==
    {<<>>,
     <<Token("LParen"), TInt(2), Token("Minus"), TIdent("x"), Token("RParen")>>,
     <<TInt(2), Token("Star"), Token("LParen")>>}

ExprStreams ==
    {<<Token("Var"), TIdent("x"), Token("Eq")>> \o o \o t :
        o \in ExprOpenings, t \in SeqsUpTo(ExprAlphabet, MaxExpr)}

InitParse ==
    /\ source = <<>>
    /\ tokens \in ExprStreams
    /\ stmts = <<>>
    /\ program = <<>>
    /\ overflowChecks \in BOOLEAN
    /\ pc = "parse"
    /\ FreshVM
    /\ calls = 1

NextParse == Parse

SpecParse == InitParse /\ [][NextParse]_vars

-----------------------------------------------------------------------------
(* Reading the last instruction off a state *)

\* the last instruction taken was a binary opcode that found both operands
BinaryStep == ip >= 1 /\ program[ip].op \in Ops /\ Len(prev.stack) >= 2
LastOp == program[ip].op
\* its operands: Left was pushed first, Right last
Left == prev.stack[Len(prev.stack) - 1]
Right == prev.stack[Len(prev.stack)]
\* the last instruction succeeded / failed with e
StepOk == outcome.tag \in {"None", "Ok"}
StepErr(e) == outcome = Failed("Runtime", e)

\* floor(a / b) for b # 0
FloorDiv(a, b) == IF b > 0 THEN a \div b ELSE (0 - a) \div (0 - b)

-----------------------------------------------------------------------------
(* Claims *)

\* C1: the stack is balanced. When a program that went through parse and
\* compile has run to the end without an error, the operand stack is empty.
C1_StackBalanced ==
    (pc = "exit" /\ outcome = OkUnit) => stack = <<>>

\* a program of two statements, a binding and a print of a binary operation
\* on the bound variable, has run to the end
C1_Witness ==
    /\ pc = "exit" /\ outcome = OkUnit
    /\ Len(stmts) = 2
    /\ Len(output) = 1
    /\ \E i \in 1..Len(program) : program[i] = LoadVar("x")
    /\ \E i \in 1..Len(program) : program[i].op \in Ops
    /\ stack = <<>>

\* the stage a failure is reported by
FailedIn(stage) == outcome.tag = "Err" /\ outcome.stage = stage

\* C2: the stages run in the order tokenize, parse, compile, run, each one
\* started only when every earlier stage has succeeded on the whole source;
\* when tokenize, parse or compile has failed, main has ended, the VM has
\* executed no instruction and nothing has been printed.
C2_StageOrder ==
    /\ [](/\ pc \in {"parse", "compile", "run"} =>
                tokenize(source).ok /\ tokens = tokenize(source).tokens
          /\ pc \in {"compile", "run"} => parse(tokens).ok /\ stmts = parse(tokens).stmts
          /\ pc = "run" => compile(stmts).ok /\ program = compile(stmts).program
          /\ (ip > 0 \/ output # <<>>) =>
                /\ tokenize(source).ok
                /\ parse(tokenize(source).tokens).ok
                /\ compile(parse(tokenize(source).tokens).stmts).ok
          /\ (FailedIn("Tokenizer") \/ FailedIn("Parse") \/ FailedIn("Compile")) =>
                pc = "exit" /\ ip = 0 /\ output = <<>> /\ stack = <<>>)
    /\ [][pc' # pc => <<pc, pc'>> \in {<<"tokenize", "parse">>, <<"parse", "compile">>,
                                       <<"compile", "run">>, <<"tokenize", "exit">>,
                                       <<"parse", "exit">>, <<"compile", "exit">>,
                                       <<"run", "exit">>, <<"run", "abort">>}]_vars

\* a source of three lines whose first two lines bind and print and whose last
\* line fails in the tokenizer: main has ended and nothing was printed
C2_Witness ==
    /\ pc = "exit" /\ FailedIn("Tokenizer") /\ outcome.err.line = 3
    /\ Len(lines(source)) = 3
    /\ LET before == tokenize(Unlines(SubSeq(lines(source), 1, 2)))
       IN  /\ before.ok
           /\ parse(before.tokens).ok
           /\ \E i \in 1..Len(before.tokens) : before.tokens[i] = Token("Print")
    /\ ip = 0 /\ output = <<>>

\* C3: VM execution is fail-fast. Once an instruction has failed, run has
\* returned its error and no later instruction runs: nothing of the VM, of the
\* output or of the result changes any more; and the failing instruction itself
\* adds no output line and no binding, so output and globals are those of the
\* instructions before it.
C3_FailFast ==
    [][/\ outcome.tag = "Err" => UNCHANGED <<pc, ip, stack, globals, output, outcome>>
       /\ (outcome.tag = "None" /\ outcome'.tag = "Err") =>
              /\ pc' = "exit"
              /\ output' = output
              /\ globals' = globals]_vars

\* an instruction failed after a line was printed and a name bound, with an
\* instruction that would print or bind still ahead
C3_Witness ==
    /\ outcome.tag = "Err"
    /\ output # <<>>
    /\ DOMAIN globals # {}
    /\ ip < Len(program)
    /\ program[ip + 1].op \in {"StoreVar", "CallBuiltin"}

\* C4: Int // Int floors toward negative infinity: for every Int a and non-zero
\* Int b other than MIN // -1, IntDiv yields Int floor(a / b).
C4_FloorDivision ==
    (/\ BinaryStep
     /\ LastOp = "IntDiv"
     /\ BothInt(Left, Right)
     /\ Right.n # 0
     /\ ~(Left.n = MinInt /\ Right.n = 0 - 1))
    => (StepOk /\ Top(stack) = VInt(FloorDiv(Left.n, Right.n)))

\* C5: Div, IntDiv and Mod with a numeric left operand and a right operand
\* Int 0 or Float zero fail with DivisionByZero carrying the operation name;
\* DivisionByZero comes from no other opcode and no non-zero right operand.
C5_DivisionByZero ==
    BinaryStep =>
        LET zero == Right = VInt(0) \/ (Right.k = "Float" /\ Right.f = Q(0, 1))
            opname == CASE LastOp = "Div" -> "divide"
                        [] LastOp = "IntDiv" -> "integer-divide"
                        [] LastOp = "Mod" -> "mod"
                        [] OTHER -> "none"
        IN  /\ (LastOp \in {"Div", "IntDiv", "Mod"} /\ Left.k \in {"Int", "Float"} /\ zero)
                => StepErr([e |-> "DivisionByZero", operation |-> opname])
            /\ (outcome.tag = "Err" /\ outcome.err.e = "DivisionByZero")
                => (LastOp \in {"Div", "IntDiv", "Mod"} /\ zero)

\* a Float divided (//) by Float zero was refused
C5_Witness ==
    /\ BinaryStep
    /\ LastOp = "IntDiv"
    /\ Left.k = "Float"
    /\ Right = VFloat(Q(0, 1))
    /\ StepErr(DivisionByZero("integer-divide"))

\* C6: every pairing outside the coercion matrix fails with
\* TypeMismatch{left, right, operation}, left the operand pushed first:
\* Str - x, Str / x, Str // x, Str % x, Int * Str, Float * Str, and any
\* operation with a none operand, whatever the other operand is.
C6_TypeMismatch ==
    (/\ BinaryStep
     /\ \/ Left.k = "Str" /\ LastOp \in {"Sub", "Div", "IntDiv", "Mod"}
        \/ Left.k \in {"Int", "Float"} /\ Right.k = "Str" /\ LastOp = "Mul"
        \/ Left.k = "None"
        \/ Right.k = "None")
    => StepErr([e |-> "TypeMismatch", left |-> Left, right |-> Right,
                operation |-> Op_name(LastOp)])

\* C7: the kind of the result of a successful numeric operation: two Ints give
\* an Int, but a Float under Div; with a Float operand the result is a Float,
\* but an Int under IntDiv.
C7_ResultKind ==
    (BinaryStep /\ StepOk /\ IsNum(Left) /\ IsNum(Right)) =>
        Top(stack).k =
            IF BothInt(Left, Right)
            THEN (IF LastOp = "Div" THEN "Float" ELSE "Int")
            ELSE (IF LastOp = "IntDiv" THEN "Int" ELSE "Float")

\* a Float was floor-divided by an Int
C7_Witness ==
    /\ BinaryStep /\ StepOk
    /\ LastOp = "IntDiv" /\ Left.k = "Float" /\ Right.k = "Int"
    /\ Top(stack).k = "Int"

\* C8: Add with a Str on at least one side and an Int, Float or Str on the
\* other yields the left operand's text followed by the right operand's, a
\* number in decimal; "a" + 1 is "a1", 1 + "a" is "1a".
C8_Concat ==
    /\ (BinaryStep /\ LastOp = "Add" /\ SomeStr(Left, Right)) =>
           (StepOk /\ Top(stack) = VStr(Text(Left) \o Text(Right)))
    /\ (ip = 3 /\ program = <<LoadStr(<<"a">>), LoadInt(1), Arith("Add")>>) =>
           stack = <<VStr(<<"a", "1">>)>>
    /\ (ip = 3 /\ program = <<LoadInt(1), LoadStr(<<"a">>), Arith("Add")>>) =>
           stack = <<VStr(<<"1", "a">>)>>
    /\ (ip = 3 /\ program = <<LoadFloat(Q(5, 2)), LoadStr(<<"a", "b">>), Arith("Add")>>) =>
           stack = <<VStr(<<"2", ".", "5", "a", "b">>)>>

\* a negative Int was put in front of a Str
C8_Witness ==
    /\ BinaryStep /\ LastOp = "Add"
    /\ Left = VInt(0 - 7) /\ Right = VStr(<<"a", "b">>)
    /\ stack = <<VStr(<<"-", "7", "a", "b">>)>>

C10_OperandOrder ==
    /\ (ip >= 1 /\ program[ip].op \in Ops /\ StepOk) =>
           /\ Len(prev.stack) >= 2
           /\ Len(stack) = Len(prev.stack) - 1
           /\ SubSeq(stack, 1, Len(stack) - 1) = SubSeq(prev.stack, 1, Len(prev.stack) - 2)
           /\ globals = prev.globals
           /\ (LastOp = "Sub" /\ BothInt(Left, Right) /\ InRange(Left.n - Right.n)) =>
                  Top(stack) = VInt(Left.n - Right.n)
    /\ (ip = 3 /\ program = <<LoadInt(7), LoadInt(2), Arith("Sub")>>) => stack = <<VInt(5)>>

\* a subtraction ran above a deeper value, with a global bound
C10_Witness ==
    /\ BinaryStep /\ StepOk /\ LastOp = "Sub"
    /\ Len(prev.stack) = 3
    /\ "x" \in DOMAIN globals
    /\ Left # Right

\* the instructions before the last one that stored to name n
StoresBefore(n) == {j \in 1..(ip - 1) : program[j] = StoreVar(n)}
\* the literal a load instruction pushes
Literal(instr) ==
    CASE instr.op = "LoadNone" -> VNone
      [] instr.op = "LoadInt" -> VInt(instr.n)
      [] instr.op = "LoadFloat" -> VFloat(instr.f)
      [] instr.op = "LoadStr" -> VStr(instr.s)

\* C11: within one run on a fresh VM, LoadVar(n) fails with
\* UndefinedVariable{n} exactly when no StoreVar(n) has executed before it;
\* otherwise it pushes the binding of n, which is the value the most recent
\* StoreVar(n) took from the stack (when that store follows a literal load,
\* the literal), whatever ran in between: a successful StoreVar(n) binds n to
\* the top of the stack and no other instruction changes the table.
C11_LastWriteWins ==
    ip >= 1 =>
        LET instr == program[ip]
        IN  /\ instr.op = "LoadVar" =>
                IF StoresBefore(instr.name) = {}
                THEN StepErr(UndefinedVariable(instr.name))
                ELSE /\ StepOk
                     /\ instr.name \in DOMAIN prev.globals
                     /\ stack = Append(prev.stack, prev.globals[instr.name])
                     /\ LET j == CHOOSE k \in StoresBefore(instr.name) :
                                    \A m \in StoresBefore(instr.name) : m <= k
                        IN  (j > 1 /\ program[j - 1].op \in
                                         {"LoadNone", "LoadInt", "LoadFloat", "LoadStr"})
                                => Top(stack) = Literal(program[j - 1])
            /\ (instr.op = "StoreVar" /\ prev.stack # <<>>) =>
                /\ StepOk
                /\ DOMAIN globals = DOMAIN prev.globals \cup {instr.name}
                /\ globals[instr.name] = Top(prev.stack)
                /\ \A m \in DOMAIN prev.globals \ {instr.name} : globals[m] = prev.globals[m]
            /\ ~(instr.op = "StoreVar" /\ prev.stack # <<>>) => globals = prev.globals

\* x was stored twice, a print in between, and the load pushed the second value
C11_Witness ==
    /\ ip >= 1 /\ program[ip] = LoadVar("x") /\ StepOk
    /\ Cardinality(StoresBefore("x")) = 2
    /\ \E j \in 1..(ip - 1) : program[j].op = "CallBuiltin"
    /\ program[ip - 2] = LoadInt(2)
    /\ program[ip - 1] = StoreVar("x")
    /\ Top(stack) = VInt(2)
    /\ output # <<>>

\* the last instruction was print with argc arguments
PrintStep == ip >= 1 /\ program[ip].op = "CallBuiltin" /\ program[ip].name = "print"

\* C12: print with argc arguments on a stack of at least argc values removes
\* exactly the top argc values, writes exactly argc lines, the first-pushed
\* argument first, pushes nothing and leaves the deeper values and the
\* global table as they were; with argc = 0 it writes nothing.
C12_PrintOrder ==
    /\ (PrintStep /\ Len(prev.stack) >= program[ip].argc) =>
           LET argc == program[ip].argc
               base == Len(prev.stack) - argc
           IN  /\ StepOk
               /\ stack = SubSeq(prev.stack, 1, base)
               /\ Len(output) = Len(prev.output) + argc
               /\ SubSeq(output, 1, Len(prev.output)) = prev.output
               /\ \A i \in 1..argc :
                      output[Len(prev.output) + i] = Render(prev.stack[base + i])
               /\ globals = prev.globals
    /\ (ip = 3 /\ program = <<LoadInt(2), LoadStr(<<"a">>), CallBuiltin("print", 2)>>) =>
           output = << <<"2">>, <<"a">> >>

\* print of two different arguments ran above a deeper value
C12_Witness ==
    /\ PrintStep /\ StepOk
    /\ program[ip].argc = 2
    /\ Len(prev.stack) = 3
    /\ prev.stack[2] # prev.stack[3]
    /\ Len(output) = Len(prev.output) + 2
    /\ stack = <<prev.stack[1]>>

C14_StackUnderflow ==
    ip >= 1 =>
        LET instr == program[ip]
            opname == CASE instr.op = "Add" -> "add"
                        [] instr.op = "Sub" -> "subtract"
                        [] instr.op = "Mul" -> "multiply"
                        [] instr.op = "Div" -> "divide"
                        [] instr.op = "IntDiv" -> "integer-divide"
                        [] instr.op = "Mod" -> "mod"
                        [] OTHER -> "none"
        IN  /\ (instr.op = "StoreVar" /\ prev.stack = <<>>) =>
                /\ StepErr([e |-> "StackUnderflow", operation |-> "store variable"])
                /\ globals = prev.globals
            /\ (instr.op = "Pop" /\ prev.stack = <<>>) =>
                /\ StepErr([e |-> "StackUnderflow", operation |-> "Pop"])
                /\ globals = prev.globals
            /\ (instr.op \in Ops /\ Len(prev.stack) < 2) =>
                /\ StepErr([e |-> "StackUnderflow", operation |-> opname])
                /\ globals = prev.globals

\* integer-divide found a single value on the stack
C14_Witness ==
    /\ ip >= 1 /\ program[ip] = Arith("IntDiv")
    /\ Len(prev.stack) = 1
    /\ StepErr([e |-> "StackUnderflow", operation |-> "integer-divide"])

\* C15: every call of run starts on an empty operand stack and an empty
\* global table: what an earlier call on the same VM stored, or left on the
\* stack when it failed, is not visible, so a LoadVar(n) with no StoreVar(n)
\* before it in the program of the call fails with UndefinedVariable{n}.
C15_FreshPerRun ==
    /\ (pc = "run" /\ ip = 0) => (stack = <<>> /\ globals = EmptyMap)
    /\ (ip >= 1 /\ program[ip].op = "LoadVar" /\ StoresBefore(program[ip].name) = {}) =>
           StepErr(UndefinedVariable(program[ip].name))

\* C16: integer arithmetic has no panic path: for every pair of Int operands
\* each of Add, Sub, Mul, Div, IntDiv and Mod returns a value in the range of
\* its type or an error value; an Add, Sub or Mul whose mathematical result
\* is out of range, and MIN % -1, do not abort the VM.
C16_NoPanic ==
    (BinaryStep /\ BothInt(Left, Right)) =>
        /\ outcome.tag # "Panic"
        /\ pc # "abort"
        /\ StepOk => (Top(stack).k = "Int" => Top(stack).n \in Int64)

\* C17: MIN // -1 on Ints fails with IntDivOverflow, and it is the only pair
\* of Ints with a non-zero divisor for which Int // Int fails.
C17_IntDivOverflow ==
    (BinaryStep /\ LastOp = "IntDiv" /\ BothInt(Left, Right) /\ Right.n # 0) =>
        IF Left.n = MinInt /\ Right.n = 0 - 1
        THEN StepErr([e |-> "IntDivOverflow"])
        ELSE StepOk /\ Top(stack).k = "Int"

\* MIN // -1 was refused
C17_Witness ==
    /\ BinaryStep /\ LastOp = "IntDiv"
    /\ Left = VInt(MinInt) /\ Right = VInt(0 - 1)
    /\ outcome.tag = "Err" /\ outcome.err.e = "IntDivOverflow"

\* C18: the instructions compile_expr emits for an expression tree, a Call
\* node in expression position included, leave the operand stack exactly one
\* value deeper when they execute without error; a CallBuiltin removes exactly
\* argc values and pushes none.
C18_OneValueDeeper ==
    /\ (/\ pc = "run" /\ outcome = NoOutcome
        /\ Len(stmts) = 1
        /\ (stmts[1].s = "Let" \/ stmts[1].expr.e # "Call")
        /\ ip = Len(compile_expr(stmts[1].expr)))
            => Len(stack) = 1
    /\ (PrintStep /\ StepOk) => Len(stack) = Len(prev.stack) - program[ip].argc

\* the load instruction that corresponds to a kind of leaf
LoadOf(kind) ==
    CASE kind = "None" -> "LoadNone"
      [] kind = "Int" -> "LoadInt"
      [] kind = "Float" -> "LoadFloat"
      [] kind = "Str" -> "LoadStr"
      [] kind = "Var" -> "LoadVar"

\* the number of leaves of a kind in an expression tree
RECURSIVE LeavesOf(_, _)
RECURSIVE LeavesOfAll(_, _)
LeavesOfAll(args, kind) ==
    IF args = <<>> THEN 0 ELSE LeavesOf(Head(args), kind) + LeavesOfAll(Tail(args), kind)
LeavesOf(expr, kind) ==
    CASE expr.e = "Binary" -> LeavesOf(expr.left, kind) + LeavesOf(expr.right, kind)
      [] expr.e = "Call" -> LeavesOfAll(expr.args, kind)
      [] OTHER -> IF expr.e = kind THEN 1 ELSE 0

\* C19: compile returns an IR sequence for every statement sequence built from
\* the Expr variants (none, integer, float, string, variable, binary, call),
\* and each none, integer, float, string literal and each variable reference
\* lowers to exactly one load instruction of the corresponding kind, which is
\* a variant of the Instr instruction set.
C19_LoweringTotal ==
    /\ ~FailedIn("Compile")
    /\ (pc = "run" /\ Len(stmts) = 1) =>
           /\ \A kind \in {"None", "Int", "Float", "Str", "Var"} :
                  Cardinality({i \in 1..Len(program) : program[i].op = LoadOf(kind)})
                      = LeavesOf(stmts[1].expr, kind)
           /\ \A i \in 1..Len(program) : program[i].op \in Instr

\* a string literal opened with quote q at some earlier place is closed at or
\* after place i of the line
RECURSIVE Closes(_, _, _)
Closes(line, i, q) ==
    IF i > Len(line) THEN FALSE
    ELSE IF line[i] = "\\" THEN Closes(line, i + 2, q)
    ELSE IF line[i] = q THEN TRUE
    ELSE Closes(line, i + 1, q)

\* from place i on, with q the quote of the string literal place i is in
\* ("" outside of one), a '#' stands between the opening and the closing quote
\* of a string literal of the line
RECURSIVE HashInString(_, _, _)
HashInString(line, i, q) ==
    IF i > Len(line) THEN FALSE
    ELSE IF q = "" THEN
        IF line[i] = "#" THEN FALSE
        ELSE IF line[i] \in {"\"", "'"} THEN HashInString(line, i + 1, line[i])
        ELSE HashInString(line, i + 1, "")
    ELSE IF line[i] = "\\" THEN HashInString(line, i + 2, q)
    ELSE IF line[i] = q THEN HashInString(line, i + 1, "")
    ELSE IF line[i] = "#" /\ Closes(line, i + 1, q) THEN TRUE
    ELSE HashInString(line, i + 1, q)

\* C20: a '#' starts a line comment only outside string literals: a line with
\* a '#' between the opening and the closing quote of a string literal is not
\* the line tokenize fails on, and when tokenize succeeds a Str token holds a
\* '#' in its content (print("a#b") yields a Str token with content a#b).
C20_HashInString ==
    pc # "tokenize" =>
        \A k \in 1..Len(lines(source)) :
            HashInString(lines(source)[k], 1, "") =>
                /\ ~(/\ FailedIn("Tokenizer")
                      /\ "line" \in DOMAIN outcome.err
                      /\ outcome.err.line = k)
                /\ ~FailedIn("Tokenizer") =>
                       \E i \in 1..Len(tokens) :
                           /\ tokens[i].t = "Str"
                           /\ \E j \in 1..Len(tokens[i].s) : tokens[i].s[j] = "#"

\* the source lines that are not empty once the comment is cut and the rest
\* is trimmed
ContentLines == {k \in 1..Len(lines(source)) : trim(before_hash(lines(source)[k])) # <<>>}
EolCount == Cardinality({i \in 1..Len(tokens) : tokens[i] = Token("Eol")})

\* the tokens of the lines ls, each line tokenized on its own
RECURSIVE PerLine(_)
PerLine(ls) ==
    IF ls = <<>> THEN <<>>
    ELSE tokenize(Head(ls) \o <<"\n">>).tokens \o PerLine(Tail(ls))

\* C21: in a token sequence tokenize returns, each source line that is not
\* empty after comment removal and trimming contributes its content tokens
\* followed by exactly one Eol and the other lines contribute nothing: there
\* are as many Eol tokens as such lines, the sequence never starts with Eol,
\* never holds two adjacent Eol tokens, and ends with Eol when it is not empty.
C21_EolPerLine ==
    (pc # "tokenize" /\ ~FailedIn("Tokenizer")) =>
        /\ EolCount = Cardinality(ContentLines)
        /\ tokens # <<>> => tokens[1] # Token("Eol") /\ tokens[Len(tokens)] = Token("Eol")
        /\ \A i \in 1..(Len(tokens) - 1) :
               ~(tokens[i] = Token("Eol") /\ tokens[i + 1] = Token("Eol"))
        /\ tokens = PerLine(lines(source))

\* tokenize succeeded on three lines of which one is blank or a comment
C21_Witness ==
    /\ pc # "tokenize" /\ ~FailedIn("Tokenizer")
    /\ Len(lines(source)) = 3
    /\ Cardinality(ContentLines) = 2
    /\ EolCount = 2
    /\ Len(tokens) > 4

\* the place of the first quote character of a line, 0 when a '#' or the end
\* of the line comes first
RECURSIVE FirstQuote(_, _)
FirstQuote(line, i) ==
    IF i > Len(line) \/ line[i] = "#" THEN 0
    ELSE IF line[i] \in {"\"", "'"} THEN i
    ELSE FirstQuote(line, i + 1)

\* what the escape rule makes of the characters after an opening quote q, read
\* off the line as it is written: the content up to the closing q, the first
\* character that may not follow a backslash, or no closing quote at all
RECURSIVE Unescape(_, _, _, _)
Unescape(line, i, q, acc) ==
    IF i > Len(line) THEN [kind |-> "open"]
    ELSE IF line[i] = q THEN [kind |-> "closed", content |-> acc]
    ELSE IF line[i] # "\\" THEN Unescape(line, i + 1, q, Append(acc, line[i]))
    ELSE IF i + 1 > Len(line) THEN [kind |-> "open"]
    ELSE CASE line[i + 1] = "n" -> Unescape(line, i + 2, q, Append(acc, "\n"))
           [] line[i + 1] = "t" -> Unescape(line, i + 2, q, Append(acc, "\t"))
           [] line[i + 1] = "r" -> Unescape(line, i + 2, q, Append(acc, "\r"))
           [] line[i + 1] \in {q, "\\"} -> Unescape(line, i + 2, q, Append(acc, line[i + 1]))
           [] OTHER -> [kind |-> "bad", char |-> line[i + 1]]

\* line k is the first line tokenize can fail on, and it holds a string
\* literal after tokens that lex
StringAt(k) ==
    /\ k \in 1..Len(lines(source))
    /\ tokenize(Unlines(SubSeq(lines(source), 1, k - 1))).ok
    /\ FirstQuote(lines(source)[k], 1) > 0
    /\ tokenize_line(trim(SubSeq(lines(source)[k], 1, FirstQuote(lines(source)[k], 1) - 1)),
                     1, k - 1, <<>>).ok
\* what the escape rule makes of that literal
Literally(k) ==
    Unescape(lines(source)[k], FirstQuote(lines(source)[k], 1) + 1,
             lines(source)[k][FirstQuote(lines(source)[k], 1)], <<>>)

\* C22: inside a string literal opened by quote q, a backslash followed by n,
\* t, r, q or a backslash contributes newline, tab, carriage return, q or
\* backslash, and a backslash followed by any other character, the other kind
\* of quote included, fails the whole tokenize call with InvalidEscape carrying
\* that character and the 1-based line.
C22_Escapes ==
    pc # "tokenize" =>
        \A k \in 1..Len(lines(source)) :
            StringAt(k) =>
                /\ Literally(k).kind = "bad" =>
                       outcome = Failed("Tokenizer", InvalidEscape(Literally(k).char, k))
                /\ Literally(k).kind = "closed" =>
                       /\ ~(FailedIn("Tokenizer") /\ outcome.err.e = "InvalidEscape"
                               /\ outcome.err.line = k)
                       /\ ~FailedIn("Tokenizer") =>
                              \E i \in 1..Len(tokens) : tokens[i] = TStr(Literally(k).content)

\* C23: a string literal that is not closed by the same quote character on the
\* same line (the line ends first, the line ends right after a backslash, or
\* only the other kind of quote follows) makes tokenize fail with
\* UnterminatedString carrying the 1-based source line of the opening quote,
\* counted over all source lines, blank and comment-only ones included, and no
\* tokens are returned.
C23_Unterminated ==
    pc # "tokenize" =>
        \A k \in 1..Len(lines(source)) :
            (StringAt(k) /\ Literally(k).kind = "open") =>
                /\ outcome = Failed("Tokenizer", [e |-> "UnterminatedString", line |-> k])
                /\ tokens = <<>>
                /\ pc = "exit"

\* the third line opens a literal with " and holds only a ' after it; a blank
\* line and a comment-only line stand before it
C23_Witness ==
    /\ pc = "exit"
    /\ Len(lines(source)) = 3
    /\ ContentLines = {3}
    /\ lines(source)[1] # lines(source)[2]
    /\ StringAt(3) /\ Literally(3).kind = "open"
    /\ lines(source)[3][Len(lines(source)[3])] = "'"
    /\ outcome = Failed("Tokenizer", [e |-> "UnterminatedString", line |-> 3])

\* the line is an integer literal text, -?[0-9]+
IsIntLiteral(line) ==
    LET ds == IF line # <<>> /\ Head(line) = "-" THEN Tail(line) ELSE line
    IN  ds # <<>> /\ \A i \in 1..Len(ds) : ds[i] \in Digits
\* the integer it writes
LiteralValue(line) ==
    IF Head(line) = "-" THEN 0 - NatValue(Tail(line), 0) ELSE NatValue(line, 0)

\* C24: round trip. For an integer literal text matching -?[0-9]+ whose value
\* an i64 holds, negative literals and the minimum integer included, lexing
\* the text gives one Int token, and rendering the value of that token gives
\* the integer the text writes.
C24_IntRoundTrip ==
    (/\ pc # "tokenize"
     /\ Len(lines(source)) = 1
     /\ IsIntLiteral(lines(source)[1])
     /\ LiteralValue(lines(source)[1]) \in MinInt..MaxInt) =>
        /\ ~FailedIn("Tokenizer")
        /\ Len(tokens) = 2
        /\ tokens[1].t = "Int"
        /\ IntToString(tokens[1].n) = IntToString(LiteralValue(lines(source)[1]))

\* the expression of a stream that is `var x =` and an expression
ExprTokens == SubSeq(tokens, 4, Len(tokens))
IsAtom(tok) == tok.t \in {"Int", "Ident"}
Atom(tok) == IF tok.t = "Int" THEN EInt(tok.n) ELSE EVar(tok.name)
IsOperator(tok) == tok.t \in {"Plus", "Minus", "Star", "Slash", "IntDiv", "Mod"}
\* 1 for the additive operators, 2 for the multiplicative ones
Level(tok) == IF tok.t \in {"Plus", "Minus"} THEN 1 ELSE 2
BinOpOf(tok) ==
    CASE tok.t = "Plus" -> "Add"
      [] tok.t = "Minus" -> "Sub"
      [] tok.t = "Star" -> "Mul"
      [] tok.t = "Slash" -> "Div"
      [] tok.t = "IntDiv" -> "IntDiv"
      [] tok.t = "Mod" -> "Mod"
Node(l, tok, r) == EBinary(l, BinOpOf(tok), r)
Negated(operand) == EBinary(EInt(0), "Sub", operand)
\* the tokens at the given places of the expression are of the given classes
Shaped(shape) ==
    /\ Len(ExprTokens) = Len(shape)
    /\ \A i \in 1..Len(shape) :
           CASE shape[i] = "a" -> IsAtom(ExprTokens[i])
             [] shape[i] = "o" -> IsOperator(ExprTokens[i])
             [] shape[i] = "-" -> ExprTokens[i] = Token("Minus")
             [] shape[i] = "(" -> ExprTokens[i] = Token("LParen")
             [] shape[i] = ")" -> ExprTokens[i] = Token("RParen")
\* parse has built exactly the binding of x to expr
Builds(expr) == ~FailedIn("Parse") /\ stmts = <<SLet("x", expr)>>

\* C25: the tree parse_expr builds respects the precedence additive <
\* multiplicative < unary minus < atoms with left-associative folding:
\* a op1 b op2 c of one level is ((a op1 b) op2 c), a multiplicative sub-chain
\* is one operand of the additive operator around it, a unary minus takes the
\* one factor after it and becomes Binary(Int 0, Sub, factor), so that -a * b
\* is (0 - a) * b, and a parenthesised sub-expression is one atom.
C25_Precedence ==
    (pc # "parse" /\ Len(tokens) > 3) =>
        LET t == ExprTokens
        IN  /\ Shaped(<<"a", "o", "a", "o", "a">>) =>
                   Builds(IF Level(t[2]) >= Level(t[4])
                          THEN Node(Node(Atom(t[1]), t[2], Atom(t[3])), t[4], Atom(t[5]))
                          ELSE Node(Atom(t[1]), t[2], Node(Atom(t[3]), t[4], Atom(t[5]))))
            /\ Shaped(<<"-", "a">>) => Builds(Negated(Atom(t[2])))
            /\ Shaped(<<"-", "-", "a">>) => Builds(Negated(Negated(Atom(t[3]))))
            /\ Shaped(<<"-", "a", "o", "a">>) =>
                   Builds(Node(Negated(Atom(t[2])), t[3], Atom(t[4])))
            /\ Shaped(<<"a", "o", "-", "a">>) =>
                   Builds(Node(Atom(t[1]), t[2], Negated(Atom(t[4]))))
            /\ Shaped(<<"(", "a", ")">>) => Builds(Atom(t[2]))
            /\ Shaped(<<"(", "a", "o", "a", ")", "o", "a">>) =>
                   Builds(Node(Node(Atom(t[2]), t[3], Atom(t[4])), t[6], Atom(t[7])))
            /\ Shaped(<<"a", "o", "(", "a", "o", "a", ")">>) =>
                   Builds(Node(Atom(t[1]), t[2], Node(Atom(t[4]), t[5], Atom(t[6]))))

\* var x = 2 - x * 2 has been parsed: the product is the right operand of the
\* minus
C25_Witness ==
    /\ pc # "parse"
    /\ Shaped(<<"a", "o", "a", "o", "a">>)
    /\ Builds(EBinary(EInt(2), "Sub", EBinary(EVar("x"), "Mul", EInt(2))))

\* the first place at or after i whose token is not an Eol
RECURSIVE SkipEols(_)
SkipEols(i) ==
    IF i <= Len(tokens) /\ tokens[i] = Token("Eol") THEN SkipEols(i + 1) ELSE i
\* the Eol tokens before place j
EolsBefore(j) == Cardinality({i \in 1..(j - 1) : tokens[i] = Token("Eol")})
\* the places of the stream known to be statement positions: its start, the
\* place after a leading `print()`, and the place after a leading binding to
\* an integer that no operator follows
StatementPositions ==
    {1}
    \cup (IF Len(tokens) >= 3
              /\ SubSeq(tokens, 1, 3) = <<Token("Print"), Token("LParen"), Token("RParen")>>
          THEN {4} ELSE {})
    \cup (IF Len(tokens) >= 4
              /\ SubSeq(tokens, 1, 3) = <<Token("Var"), TIdent("x"), Token("Eq")>>
              /\ tokens[4].t = "Int"
              /\ (Len(tokens) >= 5 => ~IsOperator(tokens[5]))
          THEN {5} ELSE {})

\* C26: at statement position a bare Eol is skipped without producing a
\* statement, and a token other than Var, Print or Eol makes parse fail with
\* UnexpectedToken whose expectation names the three legal statement starts
\* and return no statements; a bare expression and an assignment without var
\* are rejected.
C26_StatementStart ==
    pc # "parse" =>
        \A start \in StatementPositions :
            LET j == SkipEols(start)
            IN  /\ (j <= Len(tokens) /\ tokens[j] \notin {Token("Var"), Token("Print")}) =>
                       /\ outcome = Failed("Parse",
                              UnexpectedToken(tokens[j], "'var', 'print', or end of line",
                                              1 + EolsBefore(j)))
                       /\ stmts = <<>>
                /\ j > Len(tokens) =>
                       ~FailedIn("Parse") /\ Len(stmts) = (IF start = 1 THEN 0 ELSE 1)

\* an Eol, then x = 2 without var: rejected at the identifier
C26_Witness ==
    /\ pc = "exit"
    /\ tokens = <<Token("Eol"), TIdent("x"), Token("Eq"), TInt(2)>>
    /\ outcome = Failed("Parse",
           UnexpectedToken(TIdent("x"), "'var', 'print', or end of line", 2))
    /\ stmts = <<>>

\* the n-th of the source lines that carry tokens
NthContentLine(n) == CHOOSE k \in ContentLines : Cardinality({j \in ContentLines : j <= k}) = n
\* the place of the token parse fails on: the shortest prefix of the tokens
\* that parse rejects at a token ends with it
Offending ==
    CHOOSE m \in 1..Len(tokens) :
        /\ ~parse(SubSeq(tokens, 1, m)).ok
        /\ parse(SubSeq(tokens, 1, m)).err.e = "UnexpectedToken"
        /\ \A n \in 1..(m - 1) :
               parse(SubSeq(tokens, 1, n)).ok
                   \/ parse(SubSeq(tokens, 1, n)).err.e = "EndOfInput"

\* C27: for a token stream tokenize made from a source text, the line a parser
\* error carries is the 1-based source line the offending token stands on,
\* also when blank or comment-only lines precede that line.
C27_ParserLine ==
    (FailedIn("Parse") /\ source # <<>>) =>
        /\ outcome.err.e = "UnexpectedToken"
        /\ tokens[Offending] = outcome.err.got
        /\ outcome.err.line = NthContentLine(EolsBefore(Offending) + 1)

\* C28: Eol tokens delimit statements. parse accepts a token stream only if
\* every var statement and every print statement is followed by an Eol before
\* the next statement begins: in an accepted stream a Var or Print token, which
\* begins a statement, is the first token or stands right after an Eol.
C28_EolDelimits ==
    (pc # "parse" /\ ~FailedIn("Parse")) =>
        \A i \in 2..Len(tokens) :
            tokens[i] \in {Token("Var"), Token("Print")} => tokens[i - 1] = Token("Eol")

\* C29: a print statement is accepted only if a comma-separated expression
\* list stands between ( and ): nothing, or expressions with exactly one comma
\* between each two of them. A comma directly followed by ) is rejected with a
\* syntax error, as are a comma after ( and two commas in a row, and the Call
\* node holds exactly the parsed expressions in source order.
C29_PrintArguments ==
    (pc # "parse" /\ Len(tokens) >= 2
        /\ SubSeq(tokens, 1, 2) = <<Token("Print"), Token("LParen")>>) =>
        /\ ~FailedIn("Parse") =>
               \A i \in 2..(Len(tokens) - 1) :
                   tokens[i + 1] = Token("Comma") => tokens[i].t \notin {"LParen", "Comma"}
        /\ ~FailedIn("Parse") =>
               \A i \in 2..(Len(tokens) - 1) :
                   tokens[i] = Token("Comma") => tokens[i + 1] # Token("RParen")
        /\ (Len(tokens) = 6 /\ IsAtom(tokens[3]) /\ tokens[4] = Token("Comma")
               /\ IsAtom(tokens[5]) /\ tokens[6] = Token("RParen")) =>
               /\ ~FailedIn("Parse")
               /\ stmts = <<SExpr(ECall("print", <<Atom(tokens[3]), Atom(tokens[5])>>))>>

\* the postorder code of an expression tree: the code of the children from
\* left to right, then the one instruction of the node
RECURSIVE Postorder(_)
RECURSIVE PostorderAll(_)
PostorderAll(exprs) ==
    IF exprs = <<>> THEN <<>> ELSE Postorder(Head(exprs)) \o PostorderAll(Tail(exprs))
Postorder(expr) ==
    IF expr.e = "Binary"
    THEN PostorderAll(<<expr.left, expr.right>>) \o <<[op |-> expr.op]>>
    ELSE IF expr.e = "Call"
    THEN PostorderAll(expr.args)
             \o <<[op |-> "CallBuiltin", name |-> expr.name, argc |-> Len(expr.args)]>>
    ELSE IF expr.e = "Int" THEN <<[op |-> "LoadInt", n |-> expr.n]>>
    ELSE IF expr.e = "Float" THEN <<[op |-> "LoadFloat", f |-> expr.f]>>
    ELSE IF expr.e = "Str" THEN <<[op |-> "LoadStr", s |-> expr.s]>>
    ELSE <<[op |-> "LoadVar", name |-> expr.name]>>
\* the lowering of one statement
Lowered(stmt) ==
    IF stmt.s = "Let" THEN Postorder(stmt.expr) \o <<[op |-> "StoreVar", name |-> stmt.name]>>
    ELSE IF stmt.expr.e = "Call" THEN Postorder(stmt.expr)
    ELSE Postorder(stmt.expr) \o <<[op |-> "Pop"]>>
RECURSIVE LoweredAll(_)
LoweredAll(ss) == IF ss = <<>> THEN <<>> ELSE Lowered(Head(ss)) \o LoweredAll(Tail(ss))

\* C30: the IR compile returns is the concatenation, in statement order, of
\* the lowering of each statement: Let{name, expr} lowers to the postorder
\* code of expr (left operand, right operand, then the opcode of the operator)
\* followed by StoreVar(name), a call at statement position to the code of its
\* arguments from left to right followed by CallBuiltin{name, argc = number of
\* arguments} and no Pop, any other expression statement to the code of the
\* expression followed by Pop.
C30_Lowering ==
    (pc # "compile" /\ ~FailedIn("Compile") /\ stmts # <<>>) =>
        program = LoweredAll(stmts)

\* an expression statement and a binding of a sum have been lowered
C30_Witness ==
    /\ pc = "run"
    /\ stmts = <<SExpr(EInt(2)), SLet("x", EBinary(EInt(2), "Add", EVar("x")))>>
    /\ program = <<LoadInt(2), Pop, LoadInt(2), LoadVar("x"), Arith("Add"), StoreVar("x")>>

\* the number of values an instruction takes off the stack
Consumes(instr) ==
    CASE instr.op \in Ops -> 2
      [] instr.op \in {"StoreVar", "Pop"} -> 1
      [] instr.op = "CallBuiltin" -> instr.argc
      [] OTHER -> 0

\* C31: in the full pipeline the VM never fails with StackUnderflow or
\* UnknownBuiltin: for every token stream parse accepts, the compiled IR holds
\* no Pop and no LoadNone, every CallBuiltin in it is named print, and at every
\* instruction the stack holds at least the values the instruction consumes.
C31_NoUnderflow ==
    /\ \A i \in 1..Len(program) :
           /\ program[i].op \notin {"Pop", "LoadNone"}
           /\ program[i].op = "CallBuiltin" => program[i].name = "print"
    /\ (pc = "run" /\ ip < Len(program)) => Len(stack) >= Consumes(program[ip + 1])
    /\ FailedIn("Runtime") => outcome.err.e \notin {"StackUnderflow", "UnknownBuiltin"}

\* print is about to take two arguments off the stack, after a binding
C31_Witness ==
    /\ pc = "run" /\ ip < Len(program)
    /\ Len(stmts) = 2
    /\ program[ip + 1] = CallBuiltin("print", 2)
    /\ Len(stack) = 2
    /\ DOMAIN globals # {}

\* the tokens cut after every Eol, piece being the one under way
RECURSIVE TokenLines(_, _)
TokenLines(toks, piece) ==
    IF toks = <<>> THEN (IF piece = <<>> THEN <<>> ELSE <<piece>>)
    ELSE IF Head(toks) = Token("Eol")
    THEN <<Append(piece, Head(toks))>> \o TokenLines(Tail(toks), <<>>)
    ELSE TokenLines(Tail(toks), Append(piece, Head(toks)))
\* the statements of the pieces, each piece parsed on its own
RECURSIVE ParsedPerLine(_)
ParsedPerLine(pieces) ==
    IF pieces = <<>> THEN <<>>
    ELSE parse(Head(pieces)).stmts \o ParsedPerLine(Tail(pieces))

\* C32: for a token stream tokenize produced, parse never fails with
\* EndOfInput. A statement that is incomplete where its line ends (the tokens
\* before the Eol alone run out inside a statement) is reported as
\* UnexpectedToken with got = Eol and the expectation of that place, and no
\* expression or argument list continues across a line break: an accepted
\* stream is accepted line by line, with the statements of its lines.
C32_NoEndOfInput ==
    (source # <<>> /\ pc \notin {"tokenize", "parse"} /\ ~FailedIn("Tokenizer")) =>
        /\ FailedIn("Parse") => outcome.err.e = "UnexpectedToken"
        /\ \A m \in 1..Len(tokens) :
               LET before == parse(SubSeq(tokens, 1, m - 1))
               IN  (tokens[m] = Token("Eol") /\ ~before.ok /\ before.err.e = "EndOfInput") =>
                       /\ FailedIn("Parse")
                       /\ outcome.err.got = Token("Eol")
                       /\ outcome.err.expected = before.err.expected
        /\ ~FailedIn("Parse") =>
               /\ \A i \in 1..Len(TokenLines(tokens, <<>>)) :
                      parse(TokenLines(tokens, <<>>)[i]).ok
               /\ stmts = ParsedPerLine(TokenLines(tokens, <<>>))

\* a binding, then a line that ends after `var x =`: rejected at the Eol
C32_Witness ==
    /\ pc = "exit" /\ FailedIn("Parse")
    /\ Len(tokens) = 10
    /\ SubSeq(tokens, 7, 10) = <<Token("Var"), TIdent("x"), Token("Eq"), Token("Eol")>>
    /\ outcome.err.got = Token("Eol")
    /\ outcome.err.expected = "integer, float, variable, or '('"

\* the parser with its cursor at place i of the tokens
At(i) == [pos |-> i, line |-> 1]
\* a parsing function that returned Ok from cursor i left the cursor at least
\* least tokens further and not beyond the end
Moved(r, i, least) == r.ok => (i + least <= r.p.pos /\ r.p.pos <= Len(tokens))

\* C33: for every finite token sequence parse ends with a statement list or
\* an error. The cursor never decreases and never exceeds the number of
\* tokens; from every cursor place a factor, an expression, a binding, a print
\* statement and an argument list that parse take at least one token, an
\* operator loop that meets its operator takes at least two and one that does
\* not takes none, the statement loop ends at the end of the tokens; on
\* success every token has been consumed.
C33_ParseTerminates ==
    pc # "parse" =>
        /\ parse(tokens).ok \/ parse(tokens).err.e \in {"UnexpectedToken", "EndOfInput"}
        /\ parse(tokens).ok => parse(tokens).p.pos = Len(tokens)
        /\ \A i \in 0..Len(tokens) :
               /\ Moved(parse_factor(tokens, At(i)), i, 1)
               /\ Moved(parse_mul_div(tokens, At(i)), i, 1)
               /\ Moved(parse_expr(tokens, At(i)), i, 1)
               /\ Moved(parse_mul_div_loop(tokens, EInt(0), At(i)), i,
                        IF current(tokens, At(i)).t \in {"Star", "Slash", "IntDiv", "Mod"}
                        THEN 2 ELSE 0)
               /\ Moved(parse_add_sub_loop(tokens, EInt(0), At(i)), i,
                        IF current(tokens, At(i)).t \in {"Plus", "Minus"} THEN 2 ELSE 0)
               /\ Moved(parse_print_args(tokens, <<>>, At(i)), i, 1)
               /\ current(tokens, At(i)) = Token("Var") =>
                      Moved(parse_var(tokens, At(i)), i, 4)
               /\ current(tokens, At(i)) = Token("Print") =>
                      Moved(parse_print(tokens, At(i)), i, 3)
               /\ parse_loop(tokens, <<>>, At(i)).ok =>
                      parse_loop(tokens, <<>>, At(i)).p.pos = Len(tokens)

\* a binding to a difference with a product and an Eol has been parsed to its
\* last token
C33_Witness ==
    /\ pc # "parse" /\ ~FailedIn("Parse")
    /\ Len(tokens) = 7
    /\ tokens[5] = Token("Star")
    /\ tokens[7] = Token("Eol")
    /\ Len(stmts) = 1
    /\ parse(tokens).p.pos = 7

=============================================================================
